---- MODULE Spec2Model ----
(***************************************************************************)
(* Model of the maggie-bot flashloan arbitrage system.                     *)
(*                                                                         *)
(* On-chain part: contracts/FlashloanExecutor.sol.  One transaction is a   *)
(* call stack; the model follows the position of the executor inside an    *)
(* in-flight executeWithAave (pc) across its external calls, lets other    *)
(* contracts call back into the executor while the router runs, and rolls  *)
(* the whole state back to the snapshot taken at transaction start when    *)
(* any frame of the top-level call reverts.                                *)
(*                                                                         *)
(* Off-chain part: PriceMonitor.findArbitrageOpportunities (SpecMonitor)   *)
(* and OpportunityDetector.evaluate (SpecDetector).  JavaScript numbers    *)
(* are modelled in fixed point: percentages in units of 0.0001 %, rounded  *)
(* down; decisions that compare two numbers are taken on the exact         *)
(* rational values.                                                        *)
(***************************************************************************)
EXTENDS Integers, Sequences, FiniteSets, TLC

(* ------------------------------------------------------------------ *)
(* Bounds of the model                                                 *)
(* ------------------------------------------------------------------ *)

\* uint256 is scaled down to 0..MaxUint; checked arithmetic panics above it
MaxUint == 15
\* largest borrow amount and largest explicit amountIn drawn as an input
MaxAmount == 1
\* longest swap list drawn as an input
MaxSwaps == 2
\* largest flashloan premium the lending pool charges
MaxPremium == 1
\* largest balance of a token the executor holds before any transaction
MaxIdleBalance == 1
\* owner-initiated executions that get past the guards in one behaviour
MaxExecutions == 1
\* successful admin calls other than togglePause in one behaviour
MaxAdminCalls == 1
\* calls back into the executor while the router runs, per transaction
MaxNestedCalls == 1
\* liquidity of the lending pool and inventory of the router, per token
PoolLiquidity == 2
RouterInventory == 2

(* ------------------------------------------------------------------ *)
(* Addresses, tokens and inputs                                        *)
(* ------------------------------------------------------------------ *)

ZERO == "zero"
THIS == "executor"
\* Config.AAVE_POOL_PROVIDER.getPool(), resolved in the constructor
aavePool == "aavePool"
DEPLOYER == "deployer"
USER == "user"
VAULT0 == "vault"
ROUTER == "router"

Tokens == {"WETH", "USDC"}
Holders == {THIS, aavePool, ROUTER, VAULT0, USER}
Spenders == {ROUTER, aavePool}
\* msg.sender of a call into the executor
Senders == {DEPLOYER, USER}
\* arguments of transferOwnership / setVault
OwnerArgs == {ZERO, USER}
VaultArgs == {ZERO, USER, THIS}
\* argument of setMinProfit (the value the unit tests set)
BpsArgs == {50}

OtherToken(t) == CHOOSE u \in Tokens : u # t

\* reentrancy guard constants
NOT_ENTERED == 1
ENTERED == 2

(* ------------------------------------------------------------------ *)
(* Results of a call: OK or one of the revert kinds                    *)
(* ------------------------------------------------------------------ *)

Res(k, x, y) == [kind |-> k, a |-> x, b |-> y]
OK == Res("OK", 0, 0)
Unauthorized == Res("Unauthorized", 0, 0)
Paused == Res("Paused", 0, 0)
ReentrancyGuard == Res("ReentrancyGuard", 0, 0)
InvalidVault == Res("InvalidVault", 0, 0)
InvalidCallbackCaller == Res("InvalidCallbackCaller", 0, 0)
InsufficientProfit(profit, required) == Res("InsufficientProfit", profit, required)
SwapFailed(index) == Res("SwapFailed", index, 0)
ZeroBorrowAmount == Res("ZeroBorrowAmount", 0, 0)
EmptySwaps == Res("EmptySwaps", 0, 0)
\* Solidity 0.8 checked arithmetic: Panic(0x11)
Panic == Res("Panic", 17, 0)
\* abi.decode of a payload that is not an encoded CallbackData
DecodeError == Res("DecodeError", 0, 0)
\* a revert raised inside the lending pool or the token
ExternalRevert == Res("ExternalRevert", 0, 0)
\* a nested call that got past every guard of its function
Reentered == Res("Reentered", 0, 0)

(* ------------------------------------------------------------------ *)
(* Events                                                              *)
(* ------------------------------------------------------------------ *)

Event(n, fields) == [name |-> n, args |-> fields]
\* gasUsed, the fourth field of ArbitrageExecuted, is not modelled
ArbitrageExecuted(borrowToken, borrowAmount, profit) ==
    Event("ArbitrageExecuted", << borrowToken, borrowAmount, profit >>)
OwnershipTransferred(previousOwner, newOwner) ==
    Event("OwnershipTransferred", << previousOwner, newOwner >>)
VaultUpdated(previousVault, newVault) ==
    Event("VaultUpdated", << previousVault, newVault >>)
PauseToggled(flag) == Event("PauseToggled", << flag >>)

\* MinProfitUpdated with its two fields in the wrong order
MinProfitUpdated_Swapped(oldMinProfitBps, newMinProfitBps) ==
    Event("MinProfitUpdated", << newMinProfitBps, oldMinProfitBps >>)

MinProfitUpdated(oldMinProfitBps, newMinProfitBps) ==
    Event("MinProfitUpdated", << oldMinProfitBps, newMinProfitBps >>)
EmergencyWithdrawn(token, amount) == Event("EmergencyWithdraw", << token, amount >>)

(* ------------------------------------------------------------------ *)
(* Data shapes                                                         *)
(* ------------------------------------------------------------------ *)

SwapInstruction(r, tin, tout, ain, mout) ==
    [router |-> r, tokenIn |-> tin, tokenOut |-> tout,
     amountIn |-> ain, minAmountOut |-> mout]

SwapChoices ==
    { SwapInstruction(ROUTER, t, OtherToken(t), ain, mout) :
        t \in Tokens, ain \in 0..MaxAmount, mout \in {0} }

SwapLists ==
    UNION { [1..n -> SwapChoices] : n \in 0..MaxSwaps }

ArbitrageParams ==
    [borrowToken : {"WETH"},
     borrowAmount : 0..MaxAmount,
     minProfit : (0..1) \cup {MaxUint},
     swaps : SwapLists]

\* parameters that decide the validations of executeWithAave and nothing more
ProbeParams ==
    { p \in ArbitrageParams :
        /\ p.minProfit = 0
        /\ p.borrowAmount \in {0, 1}
        /\ p.swaps \in { << >>, << SwapInstruction(ROUTER, "WETH", "USDC", 0, 0) >> } }

\* the parameters a re-entering caller passes: they pass every validation
ReentryParams ==
    { p \in ProbeParams : p.borrowAmount > 0 /\ Len(p.swaps) > 0 }

CallbackData(p) ==
    [borrowToken |-> p.borrowToken, borrowAmount |-> p.borrowAmount,
     minProfit |-> p.minProfit, swaps |-> p.swaps]

\* abi.encode(CallbackData{..}): the bytes are tagged with their layout
AbiEncode(data) == [layout |-> "CallbackData", body |-> data]
\* abi.decode(params, (CallbackData)): reverts on bytes of another layout
AbiDecodable(bytes) == bytes.layout = "CallbackData"
AbiDecode(bytes) == bytes.body

NoData == [borrowToken |-> "WETH", borrowAmount |-> 0, minProfit |-> 0, swaps |-> << >>]
NoBytes == [layout |-> "empty", body |-> NoData]
\* payloads an arbitrary caller can hand to the callback
ForeignPayloads ==
    { NoBytes,
      [layout |-> "malformed", body |-> NoData],
      AbiEncode([borrowToken |-> "WETH", borrowAmount |-> 1, minProfit |-> 0,
                 swaps |-> << SwapInstruction(ROUTER, "WETH", "USDC", 0, 0) >>]) }

(* ------------------------------------------------------------------ *)
(* State                                                               *)
(* ------------------------------------------------------------------ *)

VARIABLES
    owner,          \* address public owner
    vault,          \* address public vault
    paused,         \* bool public paused
    minProfitBps,   \* uint256 public minProfitBps
    status,         \* uint256 private _status
    bal,            \* ERC20 balances: bal[token][holder]
    allow,          \* ERC20 allowances granted by the executor: allow[token][spender]
    pc,             \* position of the in-flight transaction
    top,            \* function the in-flight transaction entered the executor by
    cur,            \* frame of the in-flight transaction
    snap,           \* state before the latest top-level call
    lastCall,       \* the call into the executor that returned last
    legLog,         \* outcome of each router call of the latest transaction
    obs,            \* what the settlement check of the latest transaction saw
    nExec,          \* executions started so far
    nAdmin,         \* successful admin calls so far
    events,         \* events emitted so far by the latest transaction
    phase,          \* position of the off-chain pipeline
    prices,         \* findArbitrageOpportunities: the quotes it was given
    fi,             \* findArbitrageOpportunities: loop index i (from 1)
    fj,             \* findArbitrageOpportunities: loop index j (from 1)
    opportunities,  \* findArbitrageOpportunities: the list built so far
    compared,       \* the index pairs compared so far, in order
    detector,       \* OpportunityDetector: the fields set by its constructor
    recommendation, \* what evaluate returned
    buildArgs,      \* buildArbitrageParams: the arguments it was called with
    params,         \* buildArbitrageParams: the ArbitrageParams it returned
    calldata,       \* encodeExecuteWithAave: the calldata it returned
    received,       \* the CallbackData the flashloan callback decoded
    sim,            \* outcome of running the swaps at the quoted prices
    rpc,            \* whether the RPC endpoint answers: "up" or "down"
    poolIdx,        \* getPricesForPair: position in the factory / fee tier loops
    readLog,        \* getPricesForPair: what the reads of each pool did
    quotes,         \* getPricesForPair: the array built so far
    pricesCall,     \* getPricesForPair: "none", "running", "returned" or "threw"
    isRunning,      \* this.isRunning
    cyclesCompleted, \* this.stats.cyclesCompleted
    entry,          \* the method the bot was entered by: "start" or "test"
    botPc,          \* position inside start() / test()
    maxCycles,      \* argument of start()
    cycles,         \* local counter of start()
    pairIdx,        \* runCycle: position in MONITORED_PAIRS (from 1)
    pairLog,        \* runCycle: what happened to each pair of the cycle
    cycleLog,       \* how each runCycle begun so far went
    stopCalled,     \* stop() has been called
    delayElapsed,   \* the inter-cycle timer has fired since the last cycle
    poolCache,      \* this.poolCache: cache key -> pool address
    created,        \* the cache keys whose pool the factory has created
    lookups,        \* each in-flight or finished call of getPoolAddress
    nLookups        \* calls of getPoolAddress begun so far

chainVars == << owner, vault, paused, minProfitBps, status, bal, allow,
                pc, top, cur, snap, lastCall, legLog, obs, nExec, nAdmin, events >>

\* the variables of the transaction builder
builderVars == << buildArgs, params, calldata, received, sim >>

\* the variables of getPricesForPair
pricesVars == << rpc, poolIdx, readLog, quotes, pricesCall >>

\* the variables of the polling loop
loopVars == << isRunning, cyclesCompleted, entry, botPc, maxCycles, cycles,
               pairIdx, pairLog, cycleLog, stopCalled, delayElapsed >>

pipelineVars == << phase, prices, fi, fj, opportunities, compared, detector,
                   recommendation, builderVars >>

\* the variables of getPoolAddress and its cache
cacheVars == << poolCache, created, lookups, nLookups >>

botVars == << pipelineVars, pricesVars, loopVars, cacheVars >>

vars == << chainVars, botVars >>

State ==
    [owner |-> owner, vault |-> vault, paused |-> paused,
     minProfitBps |-> minProfitBps, status |-> status,
     bal |-> bal, allow |-> allow]

NoFrame ==
    [sender |-> ZERO, asset |-> "WETH", amount |-> 0, premium |-> 0,
     initiator |-> ZERO, bytes |-> NoBytes, data |-> NoData,
     balanceBefore |-> 0, i |-> 0, amountIn |-> 0, nested |-> 0,
     sold |-> 0, lastOut |-> 0]

\* owner, paused and _status as a call found them
Pre == [owner |-> owner, paused |-> paused, status |-> status]

\* the arguments of a call that the claims speak about
NoArg == [borrowAmount |-> 0, nSwaps |-> 0, addr |-> "none"]
ExecArg(p) == [NoArg EXCEPT !.borrowAmount = p.borrowAmount, !.nSwaps = Len(p.swaps)]
\* the address argument of transferOwnership / setVault
AddrArg(a) == [NoArg EXCEPT !.addr = a]

Call(f, s, n, r, pre, ch, arg) ==
    [fn |-> f, sender |-> s, nested |-> n, result |-> r, pre |-> pre,
     changed |-> ch, arg |-> arg]

NoCall == Call("none", ZERO, FALSE, OK,
               [owner |-> ZERO, paused |-> FALSE, status |-> 0], FALSE, NoArg)

NoObs == [seen |-> FALSE, balance |-> 0, amount |-> 0, premium |-> 0,
          minProfit |-> 0, result |-> OK,
          asset |-> "WETH", balanceBefore |-> 0, swaps |-> << >>,
          sold |-> 0, lastOut |-> 0]

(* ------------------------------------------------------------------ *)
(* Construction                                                        *)
(* ------------------------------------------------------------------ *)

\* deploy(vault.address, 10)
DeployMinProfitBps == 10
\* the _vault arguments a deployment is tried with
DeployVaultArgs == {ZERO, VAULT0}

\* a constructor that takes any vault
Constructor_AnyVault(_vault) == OK

\* the check of the constructor
Constructor(_vault) == IF _vault = ZERO THEN InvalidVault ELSE OK

\* the executor as the constructor leaves it
Deployed ==
    /\ owner = DEPLOYER
    /\ vault \in { v \in DeployVaultArgs : Constructor(v) = OK }
    /\ paused = FALSE
    /\ minProfitBps = DeployMinProfitBps
    /\ status = NOT_ENTERED
    /\ \E idle \in 0..MaxIdleBalance :
         bal = [t \in Tokens |->
                  [h \in Holders |->
                     CASE h = THIS -> idle
                       [] h = aavePool -> PoolLiquidity
                       [] h = ROUTER -> RouterInventory
                       [] OTHER -> 0]]
    /\ allow = [t \in Tokens |-> [s \in Spenders |-> 0]]
    /\ pc = "idle"
    /\ top = "none"
    /\ cur = NoFrame
    /\ snap = State
    /\ lastCall = NoCall
    /\ legLog = << >>
    /\ obs = NoObs
    /\ nExec = 0
    /\ nAdmin = 0
    /\ events = << >>

NoDetector ==
    [minProfitUsd |-> 0, maxSlippageBps |-> 0, minProfitBps |-> 0,
     maxFlashloanPercent |-> 0]

NoRecommendation == [made |-> FALSE]

\* buildArbitrageParams has not been called
NoBuild == [made |-> FALSE]

\* the transaction builder is not running
BuilderOff ==
    /\ buildArgs = NoBuild
    /\ params = NoBuild
    /\ calldata = NoBuild
    /\ received = NoBuild
    /\ sim = NoBuild

\* getPricesForPair is not running
PricesOff ==
    /\ rpc = "up"
    /\ poolIdx = 0
    /\ readLog = << >>
    /\ quotes = << >>
    /\ pricesCall = "none"

\* the bot as its constructor leaves it
LoopOff ==
    /\ isRunning = FALSE
    /\ cyclesCompleted = 0
    /\ entry = "none"
    /\ botPc = "constructed"
    /\ maxCycles = 0
    /\ cycles = 0
    /\ pairIdx = 0
    /\ pairLog = << >>
    /\ cycleLog = << >>
    /\ stopCalled = FALSE
    /\ delayElapsed = FALSE

\* ---- getPoolAddress: keys, addresses and callers ----

MaxLookups == 4

\* the calls of getPoolAddress that may be in flight at once
Callers == 1..2

ZeroAddress == "0x0000000000000000000000000000000000000000"

\* cacheKey = `${factory}-${tokenA}-${tokenB}-${fee}`
CacheKeys == { [factory |-> "UNISWAP_V3_FACTORY", tokenA |-> "WETH", tokenB |-> "USDC", fee |-> f] :
               f \in {500, 3000} }

\* the pool the factory's getPool answers for a key once the pool exists
PoolOf(key) == IF key.fee = 500 THEN "0xPool500" ELSE "0xPool3000"

NoKey == [factory |-> "none", tokenA |-> "none", tokenB |-> "none", fee |-> 0]

\* new Map(): no key is present
NoCache == [k \in CacheKeys |-> "absent"]

NoLookup == [pc |-> "idle", key |-> NoKey, poolAddress |-> "none", reads |-> 0,
             cachedAtCall |-> "none", createdAtCall |-> FALSE]

\* no call of getPoolAddress has been made: the constructor's empty Map
CacheOff ==
    /\ poolCache = NoCache
    /\ created = {}
    /\ lookups = [c \in Callers |-> NoLookup]
    /\ nLookups = 0

\* findArbitrageOpportunities, the detector and the builder are not running
PipelineOff ==
    /\ phase = "off"
    /\ prices = << >>
    /\ fi = 0
    /\ fj = 0
    /\ opportunities = << >>
    /\ compared = << >>
    /\ detector = NoDetector
    /\ recommendation = NoRecommendation
    /\ BuilderOff

\* the off-chain side is not running
BotOff ==
    /\ PipelineOff
    /\ PricesOff
    /\ LoopOff
    /\ CacheOff

Init == Deployed /\ BotOff

(* ------------------------------------------------------------------ *)
(* Modifiers and pure checks                                           *)
(* ------------------------------------------------------------------ *)

\* onlyOwner that lets everybody in
onlyOwner_Open(sender) == TRUE

\* modifier onlyOwner
onlyOwner(sender) == sender = owner

\* whenNotPaused that ignores the flag
whenNotPaused_Ignored == TRUE

\* modifier whenNotPaused
whenNotPaused == ~paused

\* nonReentrant that does not look at _status
nonReentrant_Unchecked == TRUE

\* modifier nonReentrant, the check before the body
nonReentrant == status # ENTERED

\* a modifier that leaves the lock as it is when the body returns
nonReentrantExit_Held == ENTERED

\* the statement of the modifier after the body: _status = NOT_ENTERED
nonReentrantExit == NOT_ENTERED

\* executeWithAave that validates the swap list before the borrow amount
ExecGuard_SwapsFirst(sender, p) ==
    IF ~onlyOwner(sender) THEN Unauthorized
    ELSE IF ~whenNotPaused THEN Paused
    ELSE IF ~nonReentrant THEN ReentrancyGuard
    ELSE IF Len(p.swaps) = 0 THEN EmptySwaps
    ELSE IF p.borrowAmount = 0 THEN ZeroBorrowAmount
    ELSE OK

\* modifiers and validations of executeWithAave, in the order they run
ExecGuard(sender, p) ==
    IF ~onlyOwner(sender) THEN Unauthorized
    ELSE IF ~whenNotPaused THEN Paused
    ELSE IF ~nonReentrant THEN ReentrancyGuard
    ELSE IF p.borrowAmount = 0 THEN ZeroBorrowAmount
    ELSE IF Len(p.swaps) = 0 THEN EmptySwaps
    ELSE OK

\* executeOperation that checks the initiator only
CallbackAuth_AnySender(sender, initiator) ==
    IF initiator # THIS THEN Unauthorized
    ELSE OK

\* executeOperation that checks the caller only
CallbackAuth_AnyInitiator(sender, initiator) ==
    IF sender # aavePool THEN InvalidCallbackCaller
    ELSE OK

\* the two checks at the top of executeOperation
CallbackAuth(sender, initiator) ==
    IF sender # aavePool THEN InvalidCallbackCaller
    ELSE IF initiator # THIS THEN Unauthorized
    ELSE OK

\* executeOperation up to and including abi.decode
ExecuteOperationHead(sender, initiator, bytes) ==
    IF CallbackAuth(sender, initiator) # OK THEN CallbackAuth(sender, initiator)
    ELSE IF ~AbiDecodable(bytes) THEN DecodeError
    ELSE OK

\* a profit check that also enforces the stored minProfitBps on the amount
SettleCheck_BpsFloor(balance, amount, premium, minProfit) ==
    LET floorBps == (amount * minProfitBps + 9999) \div 10000
    IN  IF amount + premium > MaxUint THEN Panic
        ELSE IF amount + premium + minProfit > MaxUint THEN Panic
        ELSE IF balance < amount + premium + minProfit + floorBps
             THEN IF balance < amount + premium
                  THEN Panic
                  ELSE InsufficientProfit(balance - (amount + premium), minProfit)
        ELSE OK

\* the profit check with <= in place of <: the boundary balance is rejected
SettleCheck_Strict(balance, amount, premium, minProfit) ==
    IF amount + premium > MaxUint THEN Panic
    ELSE IF amount + premium + minProfit > MaxUint THEN Panic
    ELSE IF balance <= amount + premium + minProfit
         THEN IF balance < amount + premium
              THEN Panic
              ELSE InsufficientProfit(balance - (amount + premium), minProfit)
    ELSE OK

\* the profit check of executeOperation on checked uint arithmetic
SettleCheck(balance, amount, premium, minProfit) ==
    IF amount + premium > MaxUint THEN Panic
    ELSE IF amount + premium + minProfit > MaxUint THEN Panic
    ELSE IF balance < amount + premium + minProfit
         THEN IF balance < amount + premium
              THEN Panic
              ELSE InsufficientProfit(balance - (amount + premium), minProfit)
    ELSE OK

\* a profit that forgets the balance recorded before the flashloan
Profit_Whole(balanceAfter, balanceBefore) == balanceAfter

\* uint256 profit = balanceAfter - balanceBefore, past the underflow check
Profit(balanceAfter, balanceBefore) == balanceAfter - balanceBefore

\* a subtraction that wraps instead of panicking
ProfitUnderflows_Never(balanceAfter, balanceBefore) == FALSE

\* balanceAfter - balanceBefore on checked uint256 arithmetic panics
ProfitUnderflows(balanceAfter, balanceBefore) == balanceAfter < balanceBefore

\* a catch block that swallows the failure and goes on with the next leg
CatchSwap_Swallow(i) == OK

\* a catch block that reports the first leg whichever leg failed
CatchSwap_First(i) == SwapFailed(0)

\* what the catch block of _executeSwaps does with a failed router call
CatchSwap(i) == SwapFailed(i)

(* ------------------------------------------------------------------ *)
(* Transaction plumbing                                                *)
(* ------------------------------------------------------------------ *)

Nested == pc = "inRouter"
Callable == pc = "idle" \/ (pc = "inRouter" /\ cur.nested < MaxNestedCalls)

\* a frame of the top-level call reverts: every effect of the transaction is undone
Revert(err) ==
    /\ owner' = snap.owner
    /\ vault' = snap.vault
    /\ paused' = snap.paused
    /\ minProfitBps' = snap.minProfitBps
    /\ status' = snap.status
    /\ bal' = snap.bal
    /\ allow' = snap.allow
    /\ pc' = "idle"
    /\ top' = "none"
    /\ lastCall' = Call(top, cur.sender, FALSE, err,
                        [owner |-> snap.owner, paused |-> snap.paused, status |-> snap.status],
                        FALSE, ExecArg(AbiDecode(cur.bytes)))
    /\ cur' = NoFrame
    /\ events' = << >>
    /\ UNCHANGED << snap, nExec, nAdmin >>

\* the top-level call returns normally: its effects are committed
Commit ==
    /\ pc' = "idle"
    /\ top' = "none"
    /\ lastCall' = Call(top, cur.sender, FALSE, OK,
                        [owner |-> snap.owner, paused |-> snap.paused, status |-> snap.status],
                        State' # snap, ExecArg(AbiDecode(cur.bytes)))
    /\ cur' = NoFrame
    /\ UNCHANGED << snap, nExec, nAdmin >>

\* a call that returns without entering a multi-step execution; the
\* conjuncts before it have fixed the next executor state
ReturnArg(f, sender, r, arg) ==
    /\ lastCall' = Call(f, sender, Nested, r, Pre, State' # State, arg)
    /\ IF Nested
       THEN /\ cur' = [cur EXCEPT !.nested = @ + 1]
            /\ UNCHANGED << snap, legLog, obs >>
       ELSE /\ snap' = State
            /\ legLog' = << >>
            /\ obs' = NoObs
            /\ UNCHANGED cur
    /\ UNCHANGED << pc, top, nExec >>

Return(f, sender, r) == ReturnArg(f, sender, r, NoArg)

\* the log of the transaction a call belongs to: a top-level call starts it
Log == IF pc = "inRouter" THEN events ELSE << >>
Emit(ev) == events' = Append(Log, ev)
NoEmit == events' = Log

\* a call that reverts in one of its own checks: no effect, no event
Unchanged ==
    /\ UNCHANGED << owner, vault, paused, minProfitBps, status, bal, allow >>
    /\ NoEmit

Move(b, t, from, to, amt) ==
    [b EXCEPT ![t] = [h \in Holders |->
        CASE h = from /\ h = to -> b[t][h]
          [] h = from -> b[t][h] - amt
          [] h = to -> b[t][h] + amt
          [] OTHER -> b[t][h]]]

(* ------------------------------------------------------------------ *)
(* executeWithAave                                                     *)
(* ------------------------------------------------------------------ *)

\* entry of executeWithAave up to the flashLoanSimple call
ExecuteWithAave(sender, p) ==
    /\ UNCHANGED botVars
    /\ pc = "idle"
    /\ IF ExecGuard(sender, p) # OK
       THEN /\ Unchanged
            /\ UNCHANGED nAdmin
            /\ ReturnArg("executeWithAave", sender, ExecGuard(sender, p), ExecArg(p))
       ELSE /\ nExec < MaxExecutions
            /\ nExec' = nExec + 1
            /\ status' = ENTERED
            /\ snap' = State
            /\ top' = "executeWithAave"
            /\ pc' = "armed"
            /\ cur' = [NoFrame EXCEPT
                         !.sender = sender,
                         !.asset = p.borrowToken,
                         !.amount = p.borrowAmount,
                         !.bytes = AbiEncode(CallbackData(p)),
                         !.balanceBefore = bal[p.borrowToken][THIS]]
            /\ legLog' = << >>
            /\ obs' = NoObs
            /\ events' = << >>
            /\ UNCHANGED << owner, vault, paused, minProfitBps, bal, allow,
                            lastCall, nAdmin >>

\* IPool.flashLoanSimple: sends the asset to the receiver and calls it back
FlashLoanSimple ==
    /\ UNCHANGED botVars
    /\ pc = "armed"
    /\ IF bal[cur.asset][aavePool] < cur.amount
       THEN /\ Revert(ExternalRevert)
            /\ UNCHANGED << legLog, obs >>
       ELSE \E premium \in 0..MaxPremium :
            /\ bal' = Move(bal, cur.asset, aavePool, THIS, cur.amount)
            /\ cur' = [cur EXCEPT !.premium = premium, !.initiator = THIS]
            /\ pc' = "callback"
            /\ lastCall' = NoCall
            /\ UNCHANGED << owner, vault, paused, minProfitBps, status, allow,
                            top, snap, legLog, obs, nExec, nAdmin, events >>

\* executeOperation as called back by the lending pool: checks and decode
ExecuteOperation ==
    /\ UNCHANGED botVars
    /\ pc = "callback"
    /\ IF ExecuteOperationHead(aavePool, cur.initiator, cur.bytes) # OK
       THEN /\ Revert(ExecuteOperationHead(aavePool, cur.initiator, cur.bytes))
            /\ UNCHANGED << legLog, obs >>
       ELSE /\ cur' = [cur EXCEPT !.data = AbiDecode(cur.bytes), !.i = 0]
            /\ pc' = IF Len(AbiDecode(cur.bytes).swaps) = 0 THEN "settle" ELSE "swaps"
            /\ UNCHANGED << owner, vault, paused, minProfitBps, status, bal, allow,
                            top, snap, lastCall, legLog, obs, nExec, nAdmin, events >>

\* a leg that takes its stated amount even when that is 0
ResolveAmountIn_Stated(swap, balance) == swap.amountIn

\* uint256 amountIn = swap.amountIn; if (amountIn == 0) amountIn = balanceOf(this)
ResolveAmountIn(swap, balance) ==
    IF swap.amountIn = 0 THEN balance ELSE swap.amountIn

\* _executeSwaps, loop body up to the router call: resolve amountIn, approve
SwapApprove ==
    /\ UNCHANGED botVars
    /\ pc = "swaps"
    /\ LET swap == cur.data.swaps[cur.i + 1]
           amountIn == ResolveAmountIn(swap, bal[swap.tokenIn][THIS])
       IN /\ allow' = [allow EXCEPT ![swap.tokenIn][swap.router] = amountIn]
          /\ cur' = [cur EXCEPT !.amountIn = amountIn]
    /\ pc' = "inRouter"
    /\ UNCHANGED << owner, vault, paused, minProfitBps, status, bal,
                    top, snap, lastCall, legLog, obs, nExec, nAdmin, events >>

\* ISwapRouter.exactInputSingle reverted: the catch block of _executeSwaps
SwapReverts ==
    /\ UNCHANGED botVars
    /\ pc = "inRouter"
    /\ legLog' = Append(legLog, "fail")
    /\ IF CatchSwap(cur.i) # OK
       THEN /\ Revert(CatchSwap(cur.i))
            /\ UNCHANGED obs
       ELSE /\ cur' = [cur EXCEPT !.i = cur.i + 1]
            /\ pc' = IF cur.i + 1 < Len(cur.data.swaps) THEN "swaps" ELSE "settle"
            /\ lastCall' = NoCall
            /\ UNCHANGED << owner, vault, paused, minProfitBps, status, bal, allow,
                            top, snap, obs, nExec, nAdmin, events >>

\* ISwapRouter.exactInputSingle returned: it pulled amountIn of tokenIn and
\* paid amountOut >= amountOutMinimum of tokenOut to the executor
SwapReturns ==
    /\ UNCHANGED botVars
    /\ pc = "inRouter"
    /\ LET swap == cur.data.swaps[cur.i + 1]
       IN /\ cur.amountIn > 0
          /\ bal[swap.tokenIn][THIS] >= cur.amountIn
          /\ allow[swap.tokenIn][swap.router] >= cur.amountIn
          /\ \E amountOut \in swap.minAmountOut..bal[swap.tokenOut][swap.router] :
               /\ bal' = Move(Move(bal, swap.tokenIn, THIS, swap.router, cur.amountIn),
                              swap.tokenOut, swap.router, THIS, amountOut)
               /\ allow' = [allow EXCEPT ![swap.tokenIn][swap.router] = @ - cur.amountIn]
               /\ cur' = [cur EXCEPT !.i = cur.i + 1,
                                     !.sold = IF cur.i = 0 THEN cur.amountIn ELSE @,
                                     !.lastOut = amountOut]
    /\ legLog' = Append(legLog, "ok")
    /\ pc' = IF cur.i + 1 < Len(cur.data.swaps) THEN "swaps" ELSE "settle"
    /\ lastCall' = NoCall
    /\ UNCHANGED << owner, vault, paused, minProfitBps, status,
                    top, snap, obs, nExec, nAdmin, events >>

\* the callback after the swaps: amountOwed, profit check, then
\* executeOperation approves the lending pool and returns true, and
\* uniswapV3FlashCallback transfers amountOwed to msg.sender
Settle ==
    /\ UNCHANGED botVars
    /\ pc = "settle"
    /\ LET balance == bal[cur.asset][THIS]
           r == SettleCheck(balance, cur.amount, cur.premium, cur.data.minProfit)
       IN /\ obs' = [seen |-> TRUE, balance |-> balance, amount |-> cur.amount,
                     premium |-> cur.premium, minProfit |-> cur.data.minProfit,
                     result |-> r,
                     asset |-> cur.asset, balanceBefore |-> cur.balanceBefore,
                     swaps |-> cur.data.swaps,
                     sold |-> cur.sold, lastOut |-> cur.lastOut]
          /\ IF r # OK
             THEN /\ Revert(r)
                  /\ UNCHANGED legLog
             ELSE /\ IF top = "uniswapV3FlashCallback"
                     THEN /\ bal' = Move(bal, cur.asset, THIS, cur.sender,
                                         cur.amount + cur.premium)
                          /\ UNCHANGED allow
                     ELSE /\ allow' = [allow EXCEPT
                                         ![cur.asset][aavePool] = cur.amount + cur.premium]
                          /\ UNCHANGED bal
                  /\ UNCHANGED << owner, vault, paused, minProfitBps, status, legLog,
                                  events >>
                  /\ IF top = "executeWithAave"
                     THEN /\ pc' = "repay"
                          /\ UNCHANGED << top, cur, snap, lastCall, nExec, nAdmin >>
                     ELSE Commit

\* the lending pool pulls amount + premium from the receiver
Repay ==
    /\ UNCHANGED botVars
    /\ pc = "repay"
    /\ LET owed == cur.amount + cur.premium
       IN \E tokenOk \in BOOLEAN :
          IF ~tokenOk \/ allow[cur.asset][aavePool] < owed \/ bal[cur.asset][THIS] < owed
          THEN /\ Revert(ExternalRevert)
               /\ UNCHANGED << legLog, obs >>
          ELSE /\ bal' = Move(bal, cur.asset, THIS, aavePool, owed)
               /\ allow' = [allow EXCEPT ![cur.asset][aavePool] = @ - owed]
               /\ pc' = "finish"
               /\ UNCHANGED << owner, vault, paused, minProfitBps, status,
                               top, cur, snap, lastCall, legLog, obs, nExec, nAdmin,
                               events >>

\* executeWithAave after flashLoanSimple returned: profit to the vault, unlock
Finish ==
    /\ UNCHANGED botVars
    /\ pc = "finish"
    /\ LET balanceAfter == bal[cur.asset][THIS]
           profit == Profit(balanceAfter, cur.balanceBefore)
       IN \E tokenOk \in BOOLEAN :
          IF ProfitUnderflows(balanceAfter, cur.balanceBefore)
          THEN /\ Revert(Panic)
               /\ UNCHANGED << legLog, obs >>
          ELSE IF profit > 0 /\ ~tokenOk
          THEN /\ Revert(ExternalRevert)
               /\ UNCHANGED << legLog, obs >>
          ELSE /\ bal' = IF profit > 0
                         THEN Move(bal, cur.asset, THIS, vault, profit)
                         ELSE bal
               /\ status' = nonReentrantExit
               /\ events' = Append(events,
                                   ArbitrageExecuted(cur.asset, cur.amount, profit))
               /\ UNCHANGED << owner, vault, paused, minProfitBps, allow, legLog, obs >>
               /\ Commit

(* ------------------------------------------------------------------ *)
(* Calls made while the router runs, and calls of the callback by      *)
(* anybody                                                             *)
(* ------------------------------------------------------------------ *)

\* executeWithAave called from inside the router call of an in-flight execution
NestedExecuteWithAave(sender, p) ==
    /\ UNCHANGED botVars
    /\ pc = "inRouter"
    /\ Callable
    /\ Unchanged
    /\ UNCHANGED nAdmin
    /\ ReturnArg("executeWithAave", sender,
                 IF ExecGuard(sender, p) = OK THEN Reentered ELSE ExecGuard(sender, p),
                 ExecArg(p))

\* executeOperation called outside the executor's own flashloan: by any
\* address directly, or by the lending pool for a loan somebody else initiated
CallExecuteOperation(sender, initiator, asset, amount, premium, bytes) ==
    /\ UNCHANGED botVars
    /\ Callable
    /\ ~(sender = aavePool /\ initiator = THIS)
    /\ IF ExecuteOperationHead(sender, initiator, bytes) # OK
       THEN /\ Unchanged
            /\ UNCHANGED nAdmin
            /\ Return("executeOperation", sender,
                      ExecuteOperationHead(sender, initiator, bytes))
       ELSE IF Nested
       THEN /\ Unchanged
            /\ UNCHANGED nAdmin
            /\ Return("executeOperation", sender, Reentered)
       ELSE /\ snap' = State
            /\ top' = "executeOperation"
            /\ cur' = [NoFrame EXCEPT
                         !.sender = sender, !.asset = asset, !.amount = amount,
                         !.premium = premium, !.initiator = initiator,
                         !.bytes = bytes, !.data = AbiDecode(bytes)]
            /\ pc' = IF Len(AbiDecode(bytes).swaps) = 0 THEN "settle" ELSE "swaps"
            /\ legLog' = << >>
            /\ obs' = NoObs
            /\ lastCall' = NoCall
            /\ events' = << >>
            /\ UNCHANGED << owner, vault, paused, minProfitBps, status, bal, allow,
                            nExec, nAdmin >>

\* a pool of the Uniswap V3 factory; its token balances are not tracked
UNIPOOL == "uniPool"

\* IUniswapV3Factory.getPool for the tokens of the first swap (the fee tier
\* is not modelled: every tier of the pair has a pool)
GetPool(tokenA, tokenB) == IF tokenA # tokenB THEN UNIPOOL ELSE ZERO

\* payloads a caller of a pool's flash can hand through to the callback
PoolPayloads ==
    { [layout |-> "malformed", body |-> NoData],
      AbiEncode(NoData),
      AbiEncode([borrowToken |-> "WETH", borrowAmount |-> 0, minProfit |-> 0,
                 swaps |-> << SwapInstruction(ROUTER, "WETH", "USDC", 0, 0) >>]) }

\* uniswapV3FlashCallback up to _executeSwaps: decode, look the expected
\* pool up from swaps[0] of the decoded data, compare it with msg.sender
FlashCallbackHead(sender, bytes) ==
    IF ~AbiDecodable(bytes) THEN DecodeError
    ELSE IF Len(AbiDecode(bytes).swaps) = 0 THEN Res("Panic", 50, 0)
    ELSE IF sender # GetPool(AbiDecode(bytes).swaps[1].tokenIn,
                             AbiDecode(bytes).swaps[1].tokenOut)
         THEN InvalidCallbackCaller
    ELSE OK

\* uniswapV3FlashCallback called as a transaction of its own: by any
\* address directly, or by a pool on which somebody called flash with the
\* executor as the receiver of the callback
UniswapV3FlashCallback(sender, fee0, fee1, bytes) ==
    /\ UNCHANGED botVars
    /\ pc = "idle"
    /\ IF FlashCallbackHead(sender, bytes) # OK
       THEN /\ Unchanged
            /\ UNCHANGED nAdmin
            /\ Return("uniswapV3FlashCallback", sender, FlashCallbackHead(sender, bytes))
       ELSE /\ snap' = State
            /\ top' = "uniswapV3FlashCallback"
            /\ cur' = [NoFrame EXCEPT
                         !.sender = sender,
                         !.asset = AbiDecode(bytes).borrowToken,
                         !.amount = AbiDecode(bytes).borrowAmount,
                         !.premium = IF fee0 > 0 THEN fee0 ELSE fee1,
                         !.bytes = bytes, !.data = AbiDecode(bytes)]
            /\ pc' = "swaps"
            /\ legLog' = << >>
            /\ obs' = NoObs
            /\ lastCall' = NoCall
            /\ events' = << >>
            /\ UNCHANGED << owner, vault, paused, minProfitBps, status, bal, allow,
                            nExec, nAdmin >>

(* ------------------------------------------------------------------ *)
(* Admin functions                                                     *)
(* ------------------------------------------------------------------ *)

\* a successful admin call is counted against MaxAdminCalls
Counted == nAdmin < MaxAdminCalls /\ nAdmin' = nAdmin + 1

TransferOwnership(sender, newOwner) ==
    /\ UNCHANGED botVars
    /\ Callable
    /\ IF ~onlyOwner(sender) \/ newOwner = ZERO
       THEN /\ Unchanged
            /\ UNCHANGED nAdmin
            /\ ReturnArg("transferOwnership", sender, Unauthorized, AddrArg(newOwner))
       ELSE /\ Counted
            /\ owner' = newOwner
            /\ Emit(OwnershipTransferred(owner, newOwner))
            /\ UNCHANGED << vault, paused, minProfitBps, status, bal, allow >>
            /\ ReturnArg("transferOwnership", sender, OK, AddrArg(newOwner))

SetVault(sender, newVault) ==
    /\ UNCHANGED botVars
    /\ Callable
    /\ IF ~onlyOwner(sender)
       THEN /\ Unchanged
            /\ UNCHANGED nAdmin
            /\ ReturnArg("setVault", sender, Unauthorized, AddrArg(newVault))
       ELSE IF newVault = ZERO
       THEN /\ Unchanged
            /\ UNCHANGED nAdmin
            /\ ReturnArg("setVault", sender, InvalidVault, AddrArg(newVault))
       ELSE /\ Counted
            /\ vault' = newVault
            /\ Emit(VaultUpdated(vault, newVault))
            /\ UNCHANGED << owner, paused, minProfitBps, status, bal, allow >>
            /\ ReturnArg("setVault", sender, OK, AddrArg(newVault))

\* a togglePause that also releases the reentrancy lock
TogglePause_Unlock(sender) ==
    /\ UNCHANGED botVars
    /\ Callable
    /\ IF ~onlyOwner(sender)
       THEN /\ Unchanged
            /\ UNCHANGED nAdmin
            /\ Return("togglePause", sender, Unauthorized)
       ELSE /\ UNCHANGED nAdmin
            /\ paused' = ~paused
            /\ status' = NOT_ENTERED
            /\ Emit(PauseToggled(paused'))
            /\ UNCHANGED << owner, vault, minProfitBps, bal, allow >>
            /\ Return("togglePause", sender, OK)

TogglePause(sender) ==
    /\ UNCHANGED botVars
    /\ Callable
    /\ IF ~onlyOwner(sender)
       THEN /\ Unchanged
            /\ UNCHANGED nAdmin
            /\ Return("togglePause", sender, Unauthorized)
       ELSE /\ UNCHANGED nAdmin
            /\ paused' = ~paused
            /\ Emit(PauseToggled(paused'))
            /\ UNCHANGED << owner, vault, minProfitBps, status, bal, allow >>
            /\ Return("togglePause", sender, OK)

SetMinProfit(sender, newMinProfitBps) ==
    /\ UNCHANGED botVars
    /\ Callable
    /\ IF ~onlyOwner(sender)
       THEN /\ Unchanged
            /\ UNCHANGED nAdmin
            /\ Return("setMinProfit", sender, Unauthorized)
       ELSE /\ Counted
            /\ minProfitBps' = newMinProfitBps
            /\ Emit(MinProfitUpdated(minProfitBps, newMinProfitBps))
            /\ UNCHANGED << owner, vault, paused, status, bal, allow >>
            /\ Return("setMinProfit", sender, OK)

EmergencyWithdraw(sender, token) ==
    /\ UNCHANGED botVars
    /\ Callable
    /\ IF ~onlyOwner(sender)
       THEN /\ Unchanged
            /\ UNCHANGED nAdmin
            /\ Return("emergencyWithdraw", sender, Unauthorized)
       ELSE /\ Counted
            /\ bal' = IF bal[token][THIS] > 0
                      THEN Move(bal, token, THIS, vault, bal[token][THIS])
                      ELSE bal
            /\ IF bal[token][THIS] > 0
               THEN Emit(EmergencyWithdrawn(token, bal[token][THIS]))
               ELSE NoEmit
            /\ UNCHANGED << owner, vault, paused, minProfitBps, status, allow >>
            /\ Return("emergencyWithdraw", sender, OK)

(* ------------------------------------------------------------------ *)
(* Specification                                                       *)
(* ------------------------------------------------------------------ *)

\* the parameters matter only to a call that gets past the modifiers and can
\* still be followed; every other call is decided by the probes
ParamsFor(sender) ==
    IF onlyOwner(sender) /\ whenNotPaused /\ nonReentrant /\ nExec < MaxExecutions
    THEN ArbitrageParams
    ELSE ProbeParams

Next ==
    \/ \E sender \in Senders : \E p \in ParamsFor(sender) : ExecuteWithAave(sender, p)
    \/ FlashLoanSimple
    \/ ExecuteOperation
    \/ SwapApprove
    \/ SwapReverts
    \/ SwapReturns
    \/ Settle
    \/ Repay
    \/ Finish
    \/ \E sender \in Senders, p \in ReentryParams : NestedExecuteWithAave(sender, p)
    \/ \E sender \in Senders \cup {aavePool}, initiator \in {THIS, USER}, asset \in {"WETH"},
          amount \in {1}, premium \in 0..MaxPremium, bytes \in ForeignPayloads :
          CallExecuteOperation(sender, initiator, asset, amount, premium, bytes)
    \/ \E sender \in Senders, newOwner \in OwnerArgs : TransferOwnership(sender, newOwner)
    \/ \E sender \in Senders, newVault \in VaultArgs : SetVault(sender, newVault)
    \/ \E sender \in Senders : TogglePause(sender)
    \/ \E sender \in Senders, b \in BpsArgs : SetMinProfit(sender, b)
    \/ \E sender \in Senders, token \in Tokens : EmergencyWithdraw(sender, token)

Spec == Init /\ [][Next]_vars

\* the executor together with a pool that calls the flash callback on it
NextPools ==
    \/ Next
    \/ \E sender \in {USER, UNIPOOL}, bytes \in PoolPayloads :
          UniswapV3FlashCallback(sender, 0, 0, bytes)

SpecPools == Init /\ [][NextPools]_vars


(* ------------------------------------------------------------------ *)
(* PriceMonitor.findArbitrageOpportunities                             *)
(* ------------------------------------------------------------------ *)

\* longest list of quotes handed to findArbitrageOpportunities
MaxQuotes == 3
\* prices of token0 in token1 a pool can quote; 0 is a pool whose
\* sqrtPriceX96 is still 0
MonitorPrices == {0, 3000, 3005, 3050}
\* FEE_TIERS.LOW and FEE_TIERS.MEDIUM, in hundredths of a basis point
MonitorFees == {500, 3000}
\* the liquidity every quote of the monitor runs carries
MonitorLiquidity == 1000

\* an entry of the array getPricesForPair returns; the pool is identified by
\* the position of its quote in the array
Quote(f, p, l) == [fee |-> f, price |-> p, liquidity |-> l]

QuoteChoices ==
    { Quote(f, p, MonitorLiquidity) : f \in MonitorFees, p \in MonitorPrices }

QuoteLists == UNION { [1..n -> QuoteChoices] : n \in 0..MaxQuotes }

Abs(x) == IF x < 0 THEN 0 - x ELSE x

\* one unit of a percentage held in fixed point is 1 / PercentScale percent
PercentScale == 10000

\* floor(2 * 100 * PercentScale * d / s) without leaving the 32-bit integers
ScaledRatio(d, s) ==
    LET n == 2 * PercentScale * d
    IN (n \div s) * 100 + ((n % s) * 100) \div s

\* TRUE when 2 * 100 * PercentScale * d / s is not a whole number
RatioHasFraction(d, s) ==
    LET n == 2 * PercentScale * d
    IN ((n % s) * 100) % s # 0

\* a price difference taken relative to the higher price, not the average
PriceDiffPercent_OfHigher(a, b) ==
    IF a + b = 0 THEN 0
    ELSE ScaledRatio(Abs(a - b), 2 * (IF a > b THEN a ELSE b))

\* priceDiffPercent = |a - b| / ((a + b) / 2) * 100, rounded down to a unit;
\* the value for a + b = 0 is NaN and is never stored
PriceDiffPercent(a, b) ==
    IF a + b = 0 THEN 0
    ELSE ScaledRatio(Abs(a - b), a + b)

\* totalFeePercent = (feeA + feeB) / 100 / 100, exact in units
TotalFeePercent(feeA, feeB) == ((feeA + feeB) * PercentScale) \div 10000

\* a test that looks at the price difference only
GrossProfitPositive_NoFees(qa, qb) == qa.price # qb.price

\* grossProfitPercent > 0, decided on the exact values; NaN > 0 is false
GrossProfitPositive(qa, qb) ==
    /\ qa.price + qb.price # 0
    /\ \/ PriceDiffPercent(qa.price, qb.price) > TotalFeePercent(qa.fee, qb.fee)
       \/ /\ PriceDiffPercent(qa.price, qb.price) = TotalFeePercent(qa.fee, qb.fee)
          /\ RatioHasFraction(Abs(qa.price - qb.price), qa.price + qb.price)

\* the object pushed for the pair (a, b) of positions in ps; dex names and
\* token addresses are left out
Opportunity(ps, a, b) ==
    LET buyFrom == IF ps[a].price < ps[b].price THEN a ELSE b
        sellTo == IF ps[a].price < ps[b].price THEN b ELSE a
    IN [buyPool |-> buyFrom,
        buyFee |-> ps[buyFrom].fee,
        buyPrice |-> ps[buyFrom].price,
        sellPool |-> sellTo,
        sellFee |-> ps[sellTo].fee,
        sellPrice |-> ps[sellTo].price,
        priceDiffPercent |-> PriceDiffPercent(ps[a].price, ps[b].price),
        totalFeePercent |-> TotalFeePercent(ps[a].fee, ps[b].fee),
        grossProfitPercent |-> PriceDiffPercent(ps[a].price, ps[b].price)
                                 - TotalFeePercent(ps[a].fee, ps[b].fee),
        buyLiquidity |-> ps[buyFrom].liquidity,
        sellLiquidity |-> ps[sellTo].liquidity]

\* a function that returns the list in the order of emission
SortByProfit_Unsorted(ops) == ops

RECURSIVE SortByProfit(_)
\* opportunities.sort((a, b) => b.grossProfitPercent - a.grossProfitPercent):
\* a stable sort, highest gross profit first
SortByProfit(ops) ==
    IF Len(ops) <= 1 THEN ops
    ELSE LET last == ops[Len(ops)]
             front == SortByProfit(SubSeq(ops, 1, Len(ops) - 1))
             keep == { k \in 1..Len(front) :
                         front[k].grossProfitPercent >= last.grossProfitPercent }
             n == Cardinality(keep)
         IN SubSeq(front, 1, n) \o << last >> \o SubSeq(front, n + 1, Len(front))

\* findArbitrageOpportunities is called with an array of quotes
InitMonitor ==
    /\ Deployed
    /\ phase = "find"
    /\ prices \in QuoteLists
    /\ fi = 1
    /\ fj = 2
    /\ opportunities = << >>
    /\ compared = << >>
    /\ detector = NoDetector
    /\ recommendation = NoRecommendation
    /\ BuilderOff
    /\ PricesOff
    /\ LoopOff
    /\ CacheOff

\* one pass of the inner loop body: compare prices[i] with prices[j]
FindCompare ==
    /\ phase = "find"
    /\ fi <= Len(prices)
    /\ fj <= Len(prices)
    /\ compared' = Append(compared, << fi, fj >>)
    /\ opportunities' = IF GrossProfitPositive(prices[fi], prices[fj])
                        THEN Append(opportunities, Opportunity(prices, fi, fj))
                        ELSE opportunities
    /\ fj' = fj + 1
    /\ UNCHANGED << chainVars, cacheVars, pricesVars, loopVars, phase, prices, fi, detector, recommendation, builderVars >>

\* the inner loop is exhausted: next i
FindNextRow ==
    /\ phase = "find"
    /\ fi <= Len(prices)
    /\ fj > Len(prices)
    /\ fi' = fi + 1
    /\ fj' = fi + 2
    /\ UNCHANGED << chainVars, cacheVars, pricesVars, loopVars, phase, prices, opportunities, compared, detector,
                    recommendation, builderVars >>

\* the outer loop is exhausted: sort and return
FindReturn ==
    /\ phase = "find"
    /\ fi > Len(prices)
    /\ opportunities' = SortByProfit(opportunities)
    /\ phase' = "found"
    /\ UNCHANGED << chainVars, cacheVars, pricesVars, loopVars, prices, fi, fj, compared, detector, recommendation,
                    builderVars >>

NextMonitor ==
    \/ FindCompare
    \/ FindNextRow
    \/ FindReturn

SpecMonitor == InitMonitor /\ [][NextMonitor]_vars

(* ------------------------------------------------------------------ *)
(* OpportunityDetector                                                 *)
(* ------------------------------------------------------------------ *)

\* decimals of the borrowed token, DECIMALS[token0], scaled down from 18 / 6
Decimals == 2
\* base units in one whole token: what formatUnits divides by
TokenUnit == 10 ^ Decimals
\* amounts of money are held in units of 1 / (TokenUnit * 10^6): with them
\* amountFloat * percent-in-units is a whole number
MicroUsd == TokenUnit

\* SAFETY defaults and AAVE_FLASH_FEE_BPS of bot/config.js
MAX_SLIPPAGE_BPS == 50
MIN_PROFIT_CENTS == 50
MIN_PROFIT_BPS == 10
MAX_FLASHLOAN_PERCENT == 10
AAVE_FLASH_FEE_BPS == 5

\* estimateGasCost: 350000 gas at baseFeeGwei 0.001 and ethPriceUsd 3000,
\* in millionths of a dollar
GasUnits == 350000
BaseFeeMilliGwei == 1
EthPriceUsd == 3000
GasCostMicroUsd == (GasUnits * BaseFeeMilliGwei * EthPriceUsd) \div 1000000

\* the options an OpportunityDetector is constructed with; minProfitUsd is
\* held in cents
DetectorOptions ==
    [minProfitUsd : {MIN_PROFIT_CENTS},
     maxSlippageBps : {MAX_SLIPPAGE_BPS, 10},
     minProfitBps : {MIN_PROFIT_BPS, 150},
     maxFlashloanPercent : {MAX_FLASHLOAN_PERCENT, 1}]

\* the quotes behind the opportunities handed to evaluate
DetectorQuotes ==
    { Quote(f, p, l) : f \in MonitorFees, p \in {3000, 3050},
                       l \in {0, 150, 5000000} }

\* a maximum that rounds up
MaxFlashloan_RoundedUp(constrainingLiquidity, maxFlashloanPercent) ==
    (constrainingLiquidity * maxFlashloanPercent + 99) \div 100

\* (constrainingLiquidity * BigInt(maxFlashloanPercent)) / 100n
MaxFlashloan(constrainingLiquidity, maxFlashloanPercent) ==
    (constrainingLiquidity * maxFlashloanPercent) \div 100

\* a trial size of a twentieth of the cap in place of a tenth
CalculateOptimalAmount_Twentieth(d, opportunity) ==
    LET buyLiquidity == opportunity.buyLiquidity
        sellLiquidity == opportunity.sellLiquidity
        constrainingLiquidity == IF buyLiquidity < sellLiquidity
                                 THEN buyLiquidity ELSE sellLiquidity
        maxFlashloan == MaxFlashloan(constrainingLiquidity, d.maxFlashloanPercent)
    IN [maxFlashloan |-> maxFlashloan,
        optimalAmount |-> maxFlashloan \div 20,
        constrainingLiquidity |-> constrainingLiquidity,
        limitingPool |-> IF buyLiquidity < sellLiquidity THEN "buy" ELSE "sell"]

CalculateOptimalAmount(d, opportunity) ==
    LET buyLiquidity == opportunity.buyLiquidity
        sellLiquidity == opportunity.sellLiquidity
        constrainingLiquidity == IF buyLiquidity < sellLiquidity
                                 THEN buyLiquidity ELSE sellLiquidity
        maxFlashloan == MaxFlashloan(constrainingLiquidity, d.maxFlashloanPercent)
    IN [maxFlashloan |-> maxFlashloan,
        optimalAmount |-> maxFlashloan \div 10,
        constrainingLiquidity |-> constrainingLiquidity,
        limitingPool |-> IF buyLiquidity < sellLiquidity THEN "buy" ELSE "sell"]

\* a cap that a side has to stay strictly below
ModelSlippage_StrictCap(d, tradeSize, liquidity, feeTier) ==
    IF liquidity = 0
    THEN [slippageBps |-> 10000, acceptable |-> FALSE]
    ELSE LET slippageBps == ((tradeSize * 10000) \div liquidity)
                              * (IF feeTier = 100 THEN 3
                                 ELSE IF feeTier = 500 THEN 2 ELSE 1)
         IN [slippageBps |-> slippageBps,
             acceptable |-> slippageBps < d.maxSlippageBps]

ModelSlippage(d, tradeSize, liquidity, feeTier) ==
    IF liquidity = 0
    THEN [slippageBps |-> 10000, acceptable |-> FALSE]
    ELSE LET impactRatio == (tradeSize * 10000) \div liquidity
             feeMultiplier == IF feeTier = 100 THEN 3
                              ELSE IF feeTier = 500 THEN 2 ELSE 1
             slippageBps == impactRatio * feeMultiplier
         IN [slippageBps |-> slippageBps,
             acceptable |-> slippageBps <= d.maxSlippageBps]

\* a verdict that leaves the relative floor out
IsViable_IgnoresBps(buyOk, sellOk, profitOk, bpsOk) == buyOk /\ sellOk /\ profitOk

\* the isViable expression of calculateProfit
IsViable(buyOk, sellOk, profitOk, bpsOk) == buyOk /\ sellOk /\ profitOk /\ bpsOk

CalculateProfit(d, opportunity, borrowAmount) ==
    LET amount == borrowAmount
        grossProfitAmount == amount * opportunity.grossProfitPercent
        flashFeeAmount == amount * AAVE_FLASH_FEE_BPS * 100
        buySlippage == ModelSlippage(d, borrowAmount, opportunity.buyLiquidity,
                                     opportunity.buyFee)
        sellSlippage == ModelSlippage(d, borrowAmount, opportunity.sellLiquidity,
                                      opportunity.sellFee)
        slippageCost == amount * (buySlippage.slippageBps + sellSlippage.slippageBps) * 100
        gasCostUsd == GasCostMicroUsd * MicroUsd
        netProfitBeforeGas == grossProfitAmount - flashFeeAmount - slippageCost
        netProfitAfterGas == netProfitBeforeGas - gasCostUsd
        \* netProfitAfterGas >= this.minProfitUsd
        profitOk == netProfitAfterGas >= d.minProfitUsd * 10000 * MicroUsd
        \* profitBps >= this.minProfitBps, profitBps being -Infinity or NaN
        \* when amountFloat is 0
        bpsOk == amount > 0 /\ netProfitAfterGas >= d.minProfitBps * amount * 100
    IN [borrowAmount |-> borrowAmount,
        grossProfitAmount |-> grossProfitAmount,
        flashFeeAmount |-> flashFeeAmount,
        slippageCost |-> slippageCost,
        gasCostUsd |-> gasCostUsd,
        netProfitBeforeGas |-> netProfitBeforeGas,
        netProfitAfterGas |-> netProfitAfterGas,
        buySlippage |-> buySlippage,
        sellSlippage |-> sellSlippage,
        slippageAcceptable |-> buySlippage.acceptable /\ sellSlippage.acceptable,
        profitAcceptable |-> profitOk,
        bpsAcceptable |-> bpsOk,
        isViable |-> IsViable(buySlippage.acceptable, sellSlippage.acceptable,
                              profitOk, bpsOk)]

EvaluateOpportunity(d, opportunity) ==
    LET sizing == CalculateOptimalAmount(d, opportunity)
        profitAnalysis == CalculateProfit(d, opportunity, sizing.optimalAmount)
    IN [made |-> TRUE,
        opportunity |-> opportunity,
        sizing |-> sizing,
        profitAnalysis |-> profitAnalysis,
        shouldExecute |-> profitAnalysis.isViable,
        reason |-> IF ~profitAnalysis.slippageAcceptable THEN "Slippage exceeds threshold"
                   ELSE IF ~profitAnalysis.profitAcceptable THEN "Net profit < min"
                   ELSE IF ~profitAnalysis.bpsAcceptable THEN "Profit bps < min"
                   ELSE IF profitAnalysis.isViable THEN "All criteria met - EXECUTE"
                   ELSE ""]

\* findArbitrageOpportunities has returned one opportunity for two quotes and
\* a detector has been constructed
InitDetector ==
    /\ Deployed
    /\ phase = "found"
    /\ prices \in [1..2 -> DetectorQuotes]
    /\ GrossProfitPositive(prices[1], prices[2])
    /\ fi = 3
    /\ fj = 4
    /\ opportunities = << Opportunity(prices, 1, 2) >>
    /\ compared = << << 1, 2 >> >>
    /\ detector \in DetectorOptions
    /\ recommendation = NoRecommendation
    /\ BuilderOff
    /\ PricesOff
    /\ LoopOff
    /\ CacheOff

\* evaluate(opp) for the opportunity found
Evaluate ==
    /\ phase = "found"
    /\ Len(opportunities) > 0
    /\ recommendation' = EvaluateOpportunity(detector, opportunities[1])
    /\ phase' = "evaluated"
    /\ UNCHANGED << chainVars, cacheVars, pricesVars, loopVars, prices, fi, fj, opportunities, compared, detector,
                    builderVars >>

NextDetector == Evaluate

SpecDetector == InitDetector /\ [][NextDetector]_vars

(* ------------------------------------------------------------------ *)
(* OpportunityDetector: construction and sizing over all fee tiers     *)
(* ------------------------------------------------------------------ *)

\* liquidity of the pools behind the opportunities that are sized
SizingLiquidity == {0, 100, 199, 200, 299, 300, 5000}

\* quotes of every fee tier of FEE_TIERS
SizingQuotes ==
    { Quote(f, p, l) : f \in {100, 500, 3000, 10000}, p \in {3000, 3050},
                       l \in SizingLiquidity }

\* the options object handed to new OpportunityDetector(options);
\* minProfitUsd is held in cents
SuppliedOptions ==
    [minProfitUsd : {0, MIN_PROFIT_CENTS, 200},
     maxSlippageBps : {0, 10, MAX_SLIPPAGE_BPS, 20000},
     minProfitBps : {0, MIN_PROFIT_BPS, 150},
     maxFlashloanPercent : {MAX_FLASHLOAN_PERCENT}]

\* JavaScript's value || fallback on numbers: 0 is falsy
OrDefault(value, fallback) == IF value = 0 THEN fallback ELSE value

\* the constructor of OpportunityDetector; the options it was given are
\* kept beside the fields it sets
NewDetector(options) ==
    [minProfitUsd |-> OrDefault(options.minProfitUsd, MIN_PROFIT_CENTS),
     maxSlippageBps |-> OrDefault(options.maxSlippageBps, MAX_SLIPPAGE_BPS),
     minProfitBps |-> OrDefault(options.minProfitBps, MIN_PROFIT_BPS),
     maxFlashloanPercent |-> OrDefault(options.maxFlashloanPercent,
                                       MAX_FLASHLOAN_PERCENT),
     options |-> options]

\* a detector has been constructed from supplied options and is handed one
\* opportunity between two pools of any fee tier
InitSizing ==
    /\ Deployed
    /\ phase = "found"
    /\ prices \in [1..2 -> SizingQuotes]
    /\ GrossProfitPositive(prices[1], prices[2])
    /\ fi = 3
    /\ fj = 4
    /\ opportunities = << Opportunity(prices, 1, 2) >>
    /\ compared = << << 1, 2 >> >>
    /\ \E options \in SuppliedOptions : detector = NewDetector(options)
    /\ recommendation = NoRecommendation
    /\ BuilderOff
    /\ PricesOff
    /\ LoopOff
    /\ CacheOff

NextSizing == Evaluate

SpecSizing == InitSizing /\ [][NextSizing]_vars

(* ------------------------------------------------------------------ *)
(* CalldataEncoder                                                     *)
(* ------------------------------------------------------------------ *)

\* config.UNISWAP_V3_ROUTER
UNISWAP_V3_ROUTER == "uniswapV3Router"
\* MONITORED_PAIRS of bot/config.js; in each the first token has the lower
\* address and is the pools' token0
MonitoredPairs ==
    { [token0 |-> "WETH", token1 |-> "USDC"],
      [token0 |-> "WETH", token1 |-> "USDT"],
      [token0 |-> "USDC", token1 |-> "USDT"] }

\* an option that is undefined
NoRouter == "undefined"
NoAmount == 0 - 1

\* the opportunity with the token0 and token1 fields findArbitrageOpportunities
\* copies from the buy-side quote
WithTokens(o, pair) ==
    [f \in DOMAIN o \cup {"token0", "token1"} |->
        IF f = "token0" THEN pair.token0
        ELSE IF f = "token1" THEN pair.token1
        ELSE o[f]]

Built(v) == [made |-> TRUE, value |-> v]

\* amounts are decimal strings: '0' is a string and is truthy, so only an
\* undefined option falls through to the default of ||
CreateSwapInstruction(options) ==
    [router |-> IF options.router = NoRouter THEN UNISWAP_V3_ROUTER ELSE options.router,
     tokenIn |-> options.tokenIn,
     tokenOut |-> options.tokenOut,
     fee |-> options.fee,
     amountIn |-> IF options.amountIn = NoAmount THEN 0 ELSE options.amountIn,
     minAmountOut |-> IF options.minAmountOut = NoAmount THEN 1 ELSE options.minAmountOut]

\* v / TokenUnit rounded to the nearest whole number, halves away from zero
RoundToMicro(v) ==
    IF v >= 0 THEN (v + TokenUnit \div 2) \div TokenUnit
    ELSE 0 - ((0 - v + TokenUnit \div 2) \div TokenUnit)

\* profitAnalysis.netProfitAfterGas, the string netProfitAfterGas.toFixed(6),
\* read back by parseFloat: the value in millionths
ParseNetProfitAfterGas(profitAnalysis) == RoundToMicro(profitAnalysis.netProfitAfterGas)

\* Math.max(0, Math.floor(expectedProfit * 0.5 * 1e6))
MinProfit(expectedProfitMicro) ==
    IF expectedProfitMicro \div 2 < 0 THEN 0 ELSE expectedProfitMicro \div 2

\* a second leg that asks for one unit at least, as the first leg does
Leg2MinAmountOut_One(borrowAmount) == 1

\* minAmountOut of the second leg: borrowAmount
Leg2MinAmountOut(borrowAmount) == borrowAmount

BuildArbitrageParams(executorAddress, opportunity, sizing, profitAnalysis) ==
    LET borrowToken == opportunity.token0
        borrowAmount == sizing.optimalAmount
        expectedProfit == ParseNetProfitAfterGas(profitAnalysis)
        minProfit == MinProfit(expectedProfit)
        swaps == << CreateSwapInstruction(
                        [router |-> UNISWAP_V3_ROUTER,
                         tokenIn |-> opportunity.token0,
                         tokenOut |-> opportunity.token1,
                         fee |-> opportunity.buyFee,
                         amountIn |-> borrowAmount,
                         minAmountOut |-> 1]),
                    CreateSwapInstruction(
                        [router |-> UNISWAP_V3_ROUTER,
                         tokenIn |-> opportunity.token1,
                         tokenOut |-> opportunity.token0,
                         fee |-> opportunity.sellFee,
                         amountIn |-> 0,
                         minAmountOut |-> Leg2MinAmountOut(borrowAmount)]) >>
    IN [flashloanProvider |-> executorAddress,
        borrowToken |-> borrowToken,
        borrowAmount |-> borrowAmount,
        minProfit |-> minProfit,
        swaps |-> swaps]

\* a swap laid out with amountIn and minAmountOut in each other's place
FormatSwap_AmountsSwapped(swap) ==
    << swap.router, swap.tokenIn, swap.tokenOut, swap.fee, swap.minAmountOut,
       swap.amountIn >>

\* params.swaps.map(swap => [...]): the fields of a swap by position
FormatSwap(swap) ==
    << swap.router, swap.tokenIn, swap.tokenOut, swap.fee, swap.amountIn,
       swap.minAmountOut >>

\* the values ethers takes for uint24 and uint256; it throws on any other
FitsUint24(v) == v >= 0 /\ v < 16777216
FitsUint256(v) == v >= 0

Encodable(p) ==
    /\ FitsUint256(p.borrowAmount)
    /\ FitsUint256(p.minProfit)
    /\ \A k \in 1..Len(p.swaps) :
         /\ FitsUint24(p.swaps[k].fee)
         /\ FitsUint256(p.swaps[k].amountIn)
         /\ FitsUint256(p.swaps[k].minAmountOut)

\* interface.encodeFunctionData('executeWithAave', [{...}]): the components
\* of the tuple in the order EXECUTOR_ABI declares them
EncodeExecuteWithAave(p) ==
    [selector |-> "executeWithAave",
     tuple |-> << p.flashloanProvider, p.borrowToken, p.borrowAmount, p.minProfit,
                  [k \in 1..Len(p.swaps) |-> FormatSwap(p.swaps[k])] >>]

\* a SwapInstruction read from its encoding, field by field in the order
\* the struct declares them
DecodeSwapInstruction(t) ==
    [router |-> t[1], tokenIn |-> t[2], tokenOut |-> t[3], fee |-> t[4],
     amountIn |-> t[5], minAmountOut |-> t[6]]

\* the ArbitrageParams calldata argument as executeWithAave reads it
DecodeArbitrageParams(cd) ==
    [flashloanProvider |-> cd.tuple[1],
     borrowToken |-> cd.tuple[2],
     borrowAmount |-> cd.tuple[3],
     minProfit |-> cd.tuple[4],
     swaps |-> [k \in 1..Len(cd.tuple[5]) |-> DecodeSwapInstruction(cd.tuple[5][k])]]

EncodeSwapInstruction(swap) ==
    << swap.router, swap.tokenIn, swap.tokenOut, swap.fee, swap.amountIn,
       swap.minAmountOut >>

\* abi.encode(CallbackData({...})) in executeWithAave
EncodeCallbackData(p) ==
    << p.borrowToken, p.borrowAmount, p.minProfit,
       [k \in 1..Len(p.swaps) |-> EncodeSwapInstruction(p.swaps[k])] >>

\* abi.decode(params, (CallbackData)) in executeOperation
DecodeCallbackData(bytes) ==
    [borrowToken |-> bytes[1],
     borrowAmount |-> bytes[2],
     minProfit |-> bytes[3],
     swaps |-> [k \in 1..Len(bytes[4]) |-> DecodeSwapInstruction(bytes[4][k])]]

\* what executeOperation is called with when the owner submits the calldata:
\* the validations of executeWithAave, the flashLoanSimple arguments and the
\* decoded payload
ReceiveCalldata(cd) ==
    LET p == DecodeArbitrageParams(cd)
    IN IF p.borrowAmount = 0 THEN [made |-> TRUE, result |-> ZeroBorrowAmount]
       ELSE IF Len(p.swaps) = 0 THEN [made |-> TRUE, result |-> EmptySwaps]
       ELSE [made |-> TRUE, result |-> OK,
             asset |-> p.borrowToken,
             amount |-> p.borrowAmount,
             data |-> DecodeCallbackData(EncodeCallbackData(p))]

\* floor(x * (1 - fee / 1000000)), fee in hundredths of a basis point
AfterFee(x, fee) ==
    LET n == 10000 - fee \div 100
    IN (x \div 10000) * n + ((x % 10000) * n) \div 10000

\* exactInputSingle on the pool of fee tier fee, executing at price (token0
\* in token1) less the fee; both tokens are taken to have the same decimals
SwapOutput(amountIn, zeroForOne, price, fee) ==
    IF zeroForOne THEN AfterFee(amountIn, fee) * price
    ELSE AfterFee(amountIn, fee) \div price

\* the premium of a flashloan: AAVE_FLASH_FEE_BPS of the amount
Premium(amount) == (amount * AAVE_FLASH_FEE_BPS) \div 10000

\* the profit check of executeOperation
ProfitFloorMet(balance, amountOwed, minProfit) == ~(balance < amountOwed + minProfit)

\* _executeSwaps and the profit check for a two-leg payload, the executor
\* holding nothing beforehand and the pools executing at the quoted prices:
\* the first leg on the buy-side quote, the second on the sell-side quote
ExecuteAtQuotes(rc, opportunity) ==
    LET swaps == rc.data.swaps
        in1 == IF swaps[1].amountIn = 0 THEN rc.amount ELSE swaps[1].amountIn
        out1 == SwapOutput(in1, swaps[1].tokenIn = opportunity.token0,
                           opportunity.buyPrice, swaps[1].fee)
        in2 == IF swaps[2].amountIn = 0 THEN out1 ELSE swaps[2].amountIn
        out2 == SwapOutput(in2, swaps[2].tokenIn = opportunity.token0,
                           opportunity.sellPrice, swaps[2].fee)
        balance == rc.amount - in1 + out2
        amountOwed == rc.amount + Premium(rc.amount)
    IN [made |-> TRUE,
        out1 |-> out1,
        out2 |-> out2,
        balance |-> balance,
        amountOwed |-> amountOwed,
        result |-> IF in1 = 0 \/ in1 > rc.amount \/ out1 < swaps[1].minAmountOut
                   THEN SwapFailed(0)
                   ELSE IF in2 = 0 \/ in2 > out1 \/ out2 < swaps[2].minAmountOut
                   THEN SwapFailed(1)
                   ELSE IF ~ProfitFloorMet(balance, amountOwed, rc.data.minProfit)
                   THEN IF balance < amountOwed THEN Panic
                        ELSE InsufficientProfit(balance - amountOwed, rc.data.minProfit)
                   ELSE OK]

\* an opportunity has been found for one monitored pair and a detector made
InitBuilder ==
    /\ Deployed
    /\ phase = "found"
    /\ prices \in [1..2 -> DetectorQuotes]
    /\ GrossProfitPositive(prices[1], prices[2])
    /\ fi = 3
    /\ fj = 4
    /\ opportunities = << Opportunity(prices, 1, 2) >>
    /\ compared = << << 1, 2 >> >>
    /\ detector \in DetectorOptions
    /\ recommendation = NoRecommendation
    /\ BuilderOff
    /\ PricesOff
    /\ LoopOff
    /\ CacheOff

\* buildArbitrageParams(opp, evaluation.sizing, evaluation.profitAnalysis)
Build ==
    /\ phase = "evaluated"
    /\ \E pair \in MonitoredPairs :
         LET opp == WithTokens(recommendation.opportunity, pair)
         IN /\ buildArgs' = [made |-> TRUE,
                             opportunity |-> opp,
                             sizing |-> recommendation.sizing,
                             profitAnalysis |-> recommendation.profitAnalysis]
            /\ params' = Built(BuildArbitrageParams(THIS, opp, recommendation.sizing,
                                                    recommendation.profitAnalysis))
    /\ phase' = "built"
    /\ UNCHANGED << chainVars, cacheVars, pricesVars, loopVars, prices, fi, fj, opportunities, compared, detector,
                    recommendation, calldata, received, sim >>

\* encodeExecuteWithAave(params)
Encode ==
    /\ phase = "built"
    /\ calldata' = IF Encodable(params.value)
                   THEN Built(EncodeExecuteWithAave(params.value))
                   ELSE [made |-> TRUE, thrown |-> TRUE]
    /\ phase' = "encoded"
    /\ UNCHANGED << chainVars, cacheVars, pricesVars, loopVars, prices, fi, fj, opportunities, compared, detector,
                    recommendation, buildArgs, params, received, sim >>

\* the owner submits the calldata: executeWithAave and the callback read it
Receive ==
    /\ phase = "encoded"
    /\ "value" \in DOMAIN calldata
    /\ received' = ReceiveCalldata(calldata.value)
    /\ phase' = "received"
    /\ UNCHANGED << chainVars, cacheVars, pricesVars, loopVars, prices, fi, fj, opportunities, compared, detector,
                    recommendation, buildArgs, params, calldata, sim >>

\* the callback runs the swaps on pools that execute at the quoted prices
RunAtQuotes ==
    /\ phase = "received"
    /\ received.result = OK
    /\ sim' = ExecuteAtQuotes(received, buildArgs.opportunity)
    /\ phase' = "executed"
    /\ UNCHANGED << chainVars, cacheVars, pricesVars, loopVars, prices, fi, fj, opportunities, compared, detector,
                    recommendation, buildArgs, params, calldata, received >>

NextBuilder ==
    \/ Evaluate
    \/ Build
    \/ Encode
    \/ Receive
    \/ RunAtQuotes

SpecBuilder == InitBuilder /\ [][NextBuilder]_vars

(* ------------------------------------------------------------------ *)
(* PriceMonitor.getPricesForPair                                       *)
(* ------------------------------------------------------------------ *)

\* reads that fail in one call of getPricesForPair while the endpoint is up
MaxReadFailures == 2

\* Object.values(FEE_TIERS)
FeeTiers == << 100, 500, 3000, 10000 >>
\* the names of the factories array
Factories == << "Uniswap", "SushiSwap" >>
\* the (factory, fee) combinations in the order the two loops visit them
Pools ==
    [k \in 1..(Len(Factories) * Len(FeeTiers)) |->
        [dex |-> Factories[((k - 1) \div Len(FeeTiers)) + 1],
         fee |-> FeeTiers[((k - 1) % Len(FeeTiers)) + 1]]]

\* what the reads of one pool can do: all succeed, getPool returns the zero
\* address, or one of the reads rejects
ReadOutcomes ==
    {"ok", "zeroAddress", "getPoolFails", "slot0Fails", "liquidityFails",
     "token0Fails", "token1Fails", "feeFails"}

\* a loop body whose read failures leave the function
PoolStep_Rethrow(o) ==
    IF o = "zeroAddress" THEN "skip"
    ELSE IF o = "ok" THEN "push"
    ELSE "throw"

\* the body of the inner loop: continue on the zero address, catch any
\* failure of getPoolAddress or of the Promise.all of getPoolState, else push
PoolStep(o) ==
    IF o = "zeroAddress" THEN "skip"
    ELSE IF o = "ok" THEN "push"
    ELSE "skip"

\* the entry pushed for the pool at position k
PoolQuote(k) == [dex |-> Pools[k].dex, fee |-> Pools[k].fee, pool |-> k]

ReadFailures(log) == Cardinality({ k \in 1..Len(log) : log[k] # "ok" })

\* what the reads of the next pool may do: nothing answers while the
\* endpoint is down
NextOutcomes ==
    IF rpc = "down" THEN {"getPoolFails"}
    ELSE { o \in ReadOutcomes : o = "ok" \/ ReadFailures(readLog) < MaxReadFailures }

RECURSIVE PricesAfter(_, _)
\* getPricesForPair as a function of what the reads of each pool do: the
\* result after the first k pools
PricesAfter(outcomes, k) ==
    IF k = 0 THEN [threw |-> FALSE, quotes |-> << >>]
    ELSE LET before == PricesAfter(outcomes, k - 1)
         IN IF before.threw THEN before
            ELSE IF PoolStep(outcomes[k]) = "throw"
                 THEN [threw |-> TRUE, quotes |-> before.quotes]
            ELSE IF PoolStep(outcomes[k]) = "push"
                 THEN [threw |-> FALSE, quotes |-> Append(before.quotes, PoolQuote(k))]
            ELSE before

GetPricesForPair(outcomes) == PricesAfter(outcomes, Len(Pools))

\* getPricesForPair has been called for one pair, the endpoint up or down
InitPrices ==
    /\ Deployed
    /\ PipelineOff
    /\ LoopOff
    /\ CacheOff
    /\ rpc \in {"up", "down"}
    /\ poolIdx = 1
    /\ readLog = << >>
    /\ quotes = << >>
    /\ pricesCall = "running"

\* one pass of the inner loop body, for the pool at poolIdx
ReadPool ==
    /\ pricesCall = "running"
    /\ poolIdx <= Len(Pools)
    /\ \E o \in NextOutcomes :
         /\ readLog' = Append(readLog, o)
         /\ quotes' = IF PoolStep(o) = "push"
                       THEN Append(quotes, PoolQuote(poolIdx))
                       ELSE quotes
         /\ pricesCall' = IF PoolStep(o) = "throw" THEN "threw" ELSE pricesCall
    /\ poolIdx' = poolIdx + 1
    /\ UNCHANGED << chainVars, cacheVars, pipelineVars, loopVars, rpc >>

\* both loops are exhausted: return prices
ReturnPrices ==
    /\ pricesCall = "running"
    /\ poolIdx > Len(Pools)
    /\ pricesCall' = "returned"
    /\ UNCHANGED << chainVars, cacheVars, pipelineVars, loopVars, rpc, poolIdx, readLog, quotes >>

NextPrices ==
    \/ ReadPool
    \/ ReturnPrices

SpecPrices == InitPrices /\ [][NextPrices]_vars

(* ------------------------------------------------------------------ *)
(* MaggieBot: runCycle, start, stop and test (src/bot/index.js)        *)
(* ------------------------------------------------------------------ *)

\* cycles one behaviour begins
MaxCyclesRun == 2

\* opportunities one pair yields in one cycle
MaxOpportunities == 2

\* the array runCycle iterates, in its order
MONITORED_PAIRS ==
    << [name |-> "WETH/USDC", token0 |-> "WETH", token1 |-> "USDC"],
       [name |-> "WETH/USDT", token0 |-> "WETH", token1 |-> "USDT"],
       [name |-> "USDC/USDT", token0 |-> "USDC", token1 |-> "USDT"] >>

\* the maxCycles arguments start() is given; 0 means no limit
MaxCyclesArgs == 0..MaxCyclesRun

\* what the reads of the pools of one pair do, pool by pool
AllReads(o) == [k \in 1..Len(Pools) |-> o]

ReadScenarios ==
    { AllReads("ok"),
      AllReads("zeroAddress"),
      [k \in 1..Len(Pools) |-> IF k <= 2 THEN "ok" ELSE "slot0Fails"] }

\* the reads of one pair under the endpoint's state: while it is down the
\* factory call fails, or with the address cached the first read of the pool
ReadsUnder(r) ==
    IF r = "down"
    THEN { AllReads("getPoolFails"), AllReads("slot0Fails") }
    ELSE ReadScenarios

\* faults during one pair: none, monitorPair rejects after the reads, or
\* the evaluation of the j-th opportunity throws
PairFaults ==
    { [kind |-> "none", at |-> 0], [kind |-> "monitor", at |-> 0] }
      \cup { [kind |-> "evaluate", at |-> j] : j \in 1..MaxOpportunities }

\* pairs of distinct quotes findArbitrageOpportunities compares
QuotePairCount(n) == (n * (n - 1)) \div 2

\* monitorPair: getPricesForPair, then findArbitrageOpportunities, which
\* returns one entry per pair of quotes whose spread is large enough
MonitorPair(reads, spreads) ==
    LET r == GetPricesForPair(reads)
        n == Len(r.quotes)
    IN  IF r.threw
        THEN [threw |-> TRUE, quotes |-> 0, found |-> 0]
        ELSE [threw |-> FALSE, quotes |-> n,
              found |-> IF spreads < QuotePairCount(n)
                        THEN spreads ELSE QuotePairCount(n)]

\* the body of the for loop of runCycle for one pair, try and catch
PairBody(reads, spreads, fault) ==
    LET m == MonitorPair(reads, spreads)
    IN  IF m.threw
        THEN [fault |-> "none", quotes |-> 0, found |-> 0, evaluated |-> 0,
              result |-> "caught"]
        ELSE IF fault.kind = "monitor"
        THEN [fault |-> "monitor", quotes |-> 0, found |-> 0,
              evaluated |-> 0, result |-> "caught"]
        ELSE IF m.found = 0
        THEN [fault |-> "none", quotes |-> m.quotes, found |-> 0,
              evaluated |-> 0, result |-> "none"]
        ELSE IF fault.kind = "evaluate" /\ fault.at <= m.found
        THEN [fault |-> "evaluate", quotes |-> m.quotes, found |-> m.found,
              evaluated |-> fault.at - 1, result |-> "caught"]
        ELSE [fault |-> "none", quotes |-> m.quotes, found |-> m.found,
              evaluated |-> m.found, result |-> "evaluated"]

\* a catch block that lets the failure leave runCycle
CatchPair_Rethrow == "rethrow"

\* the catch block of runCycle: log the message, nothing else
CatchPair == "continue"

\* a loop that gives up the remaining pairs after a failure
AfterPair_BreakOnFailure(idx, result) ==
    IF result = "caught" THEN Len(MONITORED_PAIRS) + 1 ELSE idx + 1

\* for (const pair of MONITORED_PAIRS): the next pair, however the body ended
AfterPair(idx, result) == idx + 1

\* a loop condition that does not read the flag
WhileCondition_Always(running) == TRUE

\* while (this.isRunning)
WhileCondition(running) == running

\* a break that comes one cycle late
AfterCycle_OneMore(n, limit) ==
    IF limit > 0 /\ n > limit THEN "returned" ELSE "sleeping"

\* a loop that goes round again without waiting
AfterCycle_NoDelay(n, limit) ==
    IF limit > 0 /\ n >= limit THEN "returned" ELSE "loopCheck"

\* start() after runCycle resolved and cycles++ made the count n: break on
\* the limit, else await the timer
AfterCycle(n, limit) ==
    IF limit > 0 /\ n >= limit THEN "returned" ELSE "sleeping"

\* new MaggieBot(...): nothing has been called yet
InitBot ==
    /\ Deployed
    /\ PipelineOff
    /\ PricesOff
    /\ LoopOff
    /\ CacheOff

\* runCycle is entered: the endpoint is up or down for this cycle
BeginCycle ==
    /\ Len(cycleLog) < MaxCyclesRun
    /\ \E r \in {"up", "down"} :
         /\ rpc' = r
         /\ cycleLog' = Append(cycleLog, [rpc |-> r, result |-> "running"])
    /\ pairIdx' = 1
    /\ pairLog' = << >>
    /\ botPc' = "inCycle"

\* start(maxCycles) up to the first test of the loop condition
Start ==
    /\ botPc = "constructed"
    /\ \E limit \in MaxCyclesArgs : maxCycles' = limit
    /\ isRunning' = TRUE
    /\ entry' = "start"
    /\ cycles' = 0
    /\ botPc' = "loopCheck"
    /\ UNCHANGED << chainVars, cacheVars, pipelineVars, pricesVars, cyclesCompleted,
                    pairIdx, pairLog, cycleLog, stopCalled, delayElapsed >>

\* test() up to its call of runCycle
Test ==
    /\ botPc = "constructed"
    /\ entry' = "test"
    /\ BeginCycle
    /\ UNCHANGED << chainVars, cacheVars, pipelineVars, poolIdx, readLog, quotes,
                    pricesCall, isRunning, cyclesCompleted, maxCycles, cycles,
                    stopCalled, delayElapsed >>

\* the loop condition of start(): call runCycle, or leave the loop and
\* log the statistics
LoopCheck ==
    /\ botPc = "loopCheck"
    /\ IF WhileCondition(isRunning)
       THEN BeginCycle
       ELSE /\ botPc' = "returned"
            /\ UNCHANGED << rpc, pairIdx, pairLog, cycleLog >>
    /\ UNCHANGED << chainVars, cacheVars, pipelineVars, poolIdx, readLog, quotes,
                    pricesCall, isRunning, cyclesCompleted, entry, maxCycles,
                    cycles, stopCalled, delayElapsed >>

\* one pass of the for loop of runCycle
ProcessPair ==
    /\ botPc = "inCycle"
    /\ pairIdx <= Len(MONITORED_PAIRS)
    /\ \E reads \in ReadsUnder(rpc), spreads \in 0..MaxOpportunities,
          fault \in PairFaults :
         LET b == PairBody(reads, spreads, fault)
             entryOfLog == [pair |-> pairIdx, fault |-> b.fault,
                            quotes |-> b.quotes, found |-> b.found,
                            evaluated |-> b.evaluated, result |-> b.result]
         IN  /\ pairLog' = Append(pairLog, entryOfLog)
             /\ IF b.result = "caught" /\ CatchPair = "rethrow"
                THEN /\ botPc' = "rejected"
                     /\ cycleLog' = [cycleLog EXCEPT
                                       ![Len(cycleLog)].result = "threw"]
                     /\ pairIdx' = pairIdx
                ELSE /\ pairIdx' = AfterPair(pairIdx, b.result)
                     /\ UNCHANGED << botPc, cycleLog >>
    /\ UNCHANGED << chainVars, cacheVars, pipelineVars, pricesVars, isRunning,
                    cyclesCompleted, entry, maxCycles, cycles, stopCalled,
                    delayElapsed >>

\* the for loop is exhausted: cyclesCompleted++, runCycle resolves (its
\* record of the pairs is gone with it), and its caller goes on: test()
\* returns; start() counts and breaks or sleeps
FinishCycle ==
    /\ botPc = "inCycle"
    /\ pairIdx > Len(MONITORED_PAIRS)
    /\ cyclesCompleted' = cyclesCompleted + 1
    /\ cycleLog' = [cycleLog EXCEPT ![Len(cycleLog)].result = "completed"]
    /\ IF entry = "test"
       THEN /\ botPc' = "returned"
            /\ UNCHANGED cycles
       ELSE /\ cycles' = cycles + 1
            /\ botPc' = AfterCycle(cycles + 1, maxCycles)
    /\ delayElapsed' = FALSE
    /\ pairLog' = << >>
    /\ UNCHANGED << chainVars, cacheVars, pipelineVars, pricesVars, isRunning, entry,
                    maxCycles, pairIdx, stopCalled >>

\* the timer of POLL_INTERVAL_MS fires and the loop condition is next
TimerFires ==
    /\ botPc = "sleeping"
    /\ delayElapsed' = TRUE
    /\ botPc' = "loopCheck"
    /\ UNCHANGED << chainVars, cacheVars, pipelineVars, pricesVars, isRunning,
                    cyclesCompleted, entry, maxCycles, cycles, pairIdx,
                    pairLog, cycleLog, stopCalled >>

\* stop(), called from outside while start() or test() is pending
Stop ==
    /\ entry # "none"
    /\ ~stopCalled
    /\ isRunning' = FALSE
    /\ stopCalled' = TRUE
    /\ UNCHANGED << chainVars, cacheVars, pipelineVars, pricesVars, cyclesCompleted,
                    entry, botPc, maxCycles, cycles, pairIdx, pairLog,
                    cycleLog, delayElapsed >>

\* the steps start() and test() take between two awaits of a pair
BotStep ==
    \/ LoopCheck
    \/ FinishCycle
    \/ TimerFires

\* the awaits of one pass of the for loop settle, resolved or rejected
PairSettles ==
    /\ botPc = "inCycle"
    /\ pairIdx <= Len(MONITORED_PAIRS)
    /\ pairIdx' = pairIdx + 1

NextBot ==
    \/ Start
    \/ Test
    \/ LoopCheck
    \/ ProcessPair
    \/ FinishCycle
    \/ TimerFires
    \/ Stop

\* every await of start() and runCycle() settles: the reads resolve or
\* reject, and the timer fires
SpecBot ==
    /\ InitBot
    /\ [][NextBot]_vars
    /\ WF_vars(BotStep)
    /\ WF_pairIdx(PairSettles)


(* ------------------------------------------------------------------ *)
(* Properties of the executor                                          *)
(* ------------------------------------------------------------------ *)

OwnerGated == {"executeWithAave", "transferOwnership", "setVault", "togglePause",
               "setMinProfit", "emergencyWithdraw"}
AdminFns == OwnerGated \ {"executeWithAave"}

\* amountOwed + minProfit of the latest settlement, on unbounded integers
Threshold == obs.amount + obs.premium + obs.minProfit

\* C1: the settlement of the callback succeeds exactly when the balance of the
\* borrowed asset after the swaps is at least amount + premium + minProfit; a
\* balance below it reverts the whole transaction, a balance equal to it passes.
C1_SettlementThreshold ==
    obs.seen =>
        /\ (obs.result = OK) <=> (obs.balance >= Threshold)
        /\ obs.balance < Threshold =>
              /\ pc = "idle"
              /\ lastCall.result = obs.result
              /\ State = snap
        /\ (obs.balance >= Threshold /\ pc = "repay") =>
              allow[cur.asset][aavePool] = obs.amount + obs.premium

C1_Witness ==
    /\ obs.seen
    /\ obs.result = OK
    /\ obs.balance = Threshold
    /\ obs.amount = MaxAmount
    /\ pc = "repay"

\* C2: every balance below amount + premium + minProfit, a balance below
\* amount + premium included, reverts with InsufficientProfit and the error
\* carries the shortfall (required minus realized = threshold minus balance).
C2_ShortfallReported ==
    (obs.seen /\ obs.balance < Threshold) =>
        /\ obs.result.kind = "InsufficientProfit"
        /\ obs.result.b - obs.result.a = Threshold - obs.balance

\* C3 as stated: a call of executeOperation by an address other than the
\* lending pool reverts with the unauthorized-caller error (Unauthorized).
C3_RevertsUnauthorized ==
    (lastCall.fn = "executeOperation" /\ lastCall.sender # aavePool) =>
        lastCall.result = Unauthorized

\* C3 amended: a call of executeOperation by an address other than the lending
\* pool reverts with InvalidCallbackCaller whatever the payload, the initiator
\* and the amounts are; it runs no swap and changes nothing.
C3_RevertsInvalidCallbackCaller ==
    (lastCall.fn = "executeOperation" /\ lastCall.sender # aavePool) =>
        /\ lastCall.result = InvalidCallbackCaller
        /\ ~lastCall.changed
        /\ ~lastCall.nested => (legLog = << >> /\ ~obs.seen)

C3_Witness ==
    /\ lastCall.fn = "executeOperation"
    /\ lastCall.sender = USER
    /\ lastCall.result = InvalidCallbackCaller
    /\ bal["WETH"][THIS] > 0

\* C4: executeOperation called by the lending pool for a loan the executor did
\* not initiate is rejected with Unauthorized before the payload is decoded:
\* never a decode error, no swap, no approval, no change.
C4_ForeignInitiatorRejected ==
    (lastCall.fn = "executeOperation" /\ lastCall.sender = aavePool) =>
        /\ lastCall.result = Unauthorized
        /\ ~lastCall.changed
        /\ ~lastCall.nested => (legLog = << >> /\ ~obs.seen)

C4_Witness ==
    /\ lastCall.fn = "executeOperation"
    /\ lastCall.sender = aavePool
    /\ lastCall.result = Unauthorized
    /\ ~lastCall.nested

\* C5: a call of an owner-gated function by anybody but the owner of that
\* moment reverts with Unauthorized and changes nothing, also after ownership
\* moved; the owner of that moment is not turned away by the owner check.
C5_OnlyOwner ==
    lastCall.fn \in OwnerGated =>
        /\ lastCall.sender # lastCall.pre.owner =>
              (lastCall.result = Unauthorized /\ ~lastCall.changed)
        /\ (lastCall.sender = lastCall.pre.owner
              /\ lastCall.fn \in {"togglePause", "setMinProfit", "emergencyWithdraw"}) =>
              lastCall.result = OK

C5_Witness ==
    /\ owner = USER
    /\ lastCall.fn = "togglePause"
    /\ lastCall.sender = DEPLOYER
    /\ lastCall.pre.owner = USER
    /\ lastCall.result = Unauthorized

\* C6: while paused, executeWithAave by the owner reverts with Paused and
\* requests no flashloan; each successful togglePause flips the flag, so a
\* second one restores it, and an unpaused executor is not turned away by the
\* pause gate.
C6_PauseGate ==
    /\ (lastCall.fn = "executeWithAave" /\ lastCall.sender = lastCall.pre.owner
          /\ lastCall.pre.paused) =>
          /\ lastCall.result = Paused
          /\ ~lastCall.changed
          /\ ~lastCall.nested => (legLog = << >> /\ ~obs.seen)
    /\ (lastCall.fn = "executeWithAave" /\ ~lastCall.pre.paused) =>
          lastCall.result # Paused
    /\ (lastCall.fn = "togglePause" /\ lastCall.result = OK /\ ~lastCall.nested
          /\ pc \in {"idle", "armed"}) =>
          paused = ~lastCall.pre.paused
    /\ pc # "idle" /\ top = "executeWithAave" => ~snap.paused

\* paused and unpaused again, and the execution that follows is let in
C6_Witness ==
    /\ pc = "armed"
    /\ lastCall.fn = "togglePause"
    /\ lastCall.result = OK
    /\ lastCall.pre.paused

\* C7: executeWithAave by the owner, not paused, reverts with ZeroBorrowAmount
\* when borrowAmount is 0 and with EmptySwaps when borrowAmount > 0 and the
\* swap list is empty, before a flashloan is requested and without any change.
C7_Validation ==
    (lastCall.fn = "executeWithAave" /\ ~lastCall.nested
       /\ lastCall.sender = lastCall.pre.owner /\ ~lastCall.pre.paused) =>
        /\ lastCall.arg.borrowAmount = 0 =>
              /\ lastCall.result = ZeroBorrowAmount
              /\ ~lastCall.changed /\ legLog = << >> /\ ~obs.seen
              /\ pc = "idle" => State = snap
        /\ (lastCall.arg.borrowAmount > 0 /\ lastCall.arg.nSwaps = 0) =>
              /\ lastCall.result = EmptySwaps
              /\ ~lastCall.changed /\ legLog = << >> /\ ~obs.seen
              /\ pc = "idle" => State = snap

C7_Witness ==
    /\ lastCall.fn = "executeWithAave"
    /\ lastCall.arg.borrowAmount = 0
    /\ lastCall.arg.nSwaps = 0
    /\ lastCall.result = ZeroBorrowAmount

InFlight == top = "executeWithAave" /\ pc # "idle"

\* C8: from the guards of executeWithAave to its return _status is ENTERED,
\* through the callback and every router call, and an executeWithAave called
\* in that window fails whoever calls it.
C8_LockHeld ==
    /\ InFlight => status = ENTERED
    /\ (lastCall.fn = "executeWithAave" /\ lastCall.nested) =>
          /\ lastCall.pre.status = ENTERED
          /\ lastCall.result.kind \in {"Unauthorized", "Paused", "ReentrancyGuard"}
          /\ lastCall.sender = lastCall.pre.owner /\ ~lastCall.pre.paused =>
                lastCall.result = ReentrancyGuard
          /\ ~lastCall.changed

C8_Witness ==
    /\ pc = "inRouter"
    /\ cur.i = 1
    /\ lastCall.fn = "executeWithAave"
    /\ lastCall.nested
    /\ lastCall.result = ReentrancyGuard

Failed(c) == c.result # OK

\* C10: after any failure during executeWithAave (a guard, a validation, the
\* lending pool, a router call, the profit check, the repayment, the transfer
\* to the vault) owner, vault, paused, minProfitBps, _status, every balance
\* and every allowance are what they were before the call.
C10_Atomic ==
    (pc = "idle" /\ lastCall.fn = "executeWithAave" /\ ~lastCall.nested
       /\ (Failed(lastCall) \/ (\E k \in 1..Len(legLog) : legLog[k] = "fail")
             \/ (obs.seen /\ obs.result # OK))) =>
        /\ State = snap
        /\ Failed(lastCall)
        /\ ~lastCall.changed

\* the second leg failed after the first leg had moved tokens
C10_Witness ==
    /\ pc = "idle"
    /\ lastCall.fn = "executeWithAave"
    /\ lastCall.result = SwapFailed(1)
    /\ legLog = << "ok", "fail" >>
    /\ State = snap

\* the step in which executeWithAave returns normally
FinishOK == pc = "finish" /\ pc' = "idle" /\ lastCall'.result = OK

\* C11 as stated: when executeWithAave succeeds the vault receives exactly
\* balanceAfter - balanceBefore of the borrowed token and the executor's own
\* balance of it ends at its value before the call, whatever the vault is.
C11_ProfitForwardedAnyVault ==
    [][FinishOK =>
         /\ bal'[cur.asset][vault] =
               bal[cur.asset][vault] + (bal[cur.asset][THIS] - cur.balanceBefore)
         /\ bal'[cur.asset][THIS] = snap.bal[cur.asset][THIS]]_vars

\* C11 amended: when executeWithAave succeeds and the vault is not the executor
\* itself, the transfer at the end moves exactly balanceAfter - balanceBefore
\* of the borrowed token to the vault of that moment, and the executor's
\* balance ends at the value recorded before the flashloan, which is its
\* balance before the call; with the executor as its own vault the profit stays.
C11_ProfitForwarded ==
    [][FinishOK =>
         /\ cur.balanceBefore = snap.bal[cur.asset][THIS]
         /\ UNCHANGED vault
         /\ vault # THIS =>
               /\ bal'[cur.asset][vault] =
                     bal[cur.asset][vault] + (bal[cur.asset][THIS] - cur.balanceBefore)
               /\ bal'[cur.asset][THIS] = cur.balanceBefore
         /\ vault = THIS => bal'[cur.asset][THIS] = bal[cur.asset][THIS]
         /\ \A t \in Tokens \ {cur.asset} : bal'[t] = bal[t]]_vars

\* a successful execution that forwarded a positive profit to the vault
C11_Witness ==
    /\ pc = "idle"
    /\ lastCall.fn = "executeWithAave"
    /\ lastCall.result = OK
    /\ vault # THIS
    /\ bal["WETH"][vault] > snap.bal["WETH"][vault]
    /\ bal["WETH"][THIS] = snap.bal["WETH"][THIS]

\* the principal-loss case at the settlement: a two-leg round trip whose first
\* leg sold at least the borrowed amount of the borrowed token, whose second
\* leg asked for less than the borrowed amount and returned less than amount +
\* premium of the borrowed token
PrincipalLoss ==
    /\ obs.seen
    /\ Len(obs.swaps) = 2
    /\ obs.swaps[1].tokenIn = obs.asset
    /\ obs.swaps[2].tokenOut = obs.asset
    /\ obs.swaps[2].minAmountOut < obs.amount
    /\ obs.sold >= obs.amount
    /\ obs.lastOut < obs.amount + obs.premium

FailedAt(n) ==
    /\ Len(legLog) = n + 1
    /\ \A k \in 1..n : legLog[k] = "ok"
    /\ legLog[n + 1] = "fail"

\* C13: when leg i is the first leg whose router call fails, legs 0..i-1 have
\* run, no later leg is attempted and the whole transaction reverts with
\* SwapFailed(i), i being the position of the failing leg; and SwapFailed(i)
\* is raised by nothing else.
C13_SwapFailedIndex ==
    /\ (\E k \in 1..Len(legLog) : legLog[k] = "fail") =>
          /\ FailedAt(Len(legLog) - 1)
          /\ pc = "idle"
          /\ lastCall.result = SwapFailed(Len(legLog) - 1)
          /\ Len(legLog) <= lastCall.arg.nSwaps
          /\ State = snap
    /\ (pc = "idle" /\ lastCall.result.kind = "SwapFailed") =>
          FailedAt(lastCall.result.a)

\* the first leg of a two-leg list failed and the second leg never ran
C13_Witness ==
    /\ pc = "idle"
    /\ lastCall.result = SwapFailed(0)
    /\ lastCall.arg.nSwaps = MaxSwaps
    /\ FailedAt(0)

\* the step in which a call of admin function f returns normally
AdminStep(f) == lastCall' # lastCall /\ lastCall'.fn = f /\ lastCall'.result = OK

\* the event the latest call appended to the log of its transaction
LastEvent == events[Len(events)]

\* C14: a successful admin call changes its own target and nothing else:
\* transferOwnership the owner, setVault the vault, togglePause the pause flag,
\* setMinProfit minProfitBps, emergencyWithdraw the balances of one token, by
\* moving the executor's whole balance of it to the vault; none of them
\* touches _status, the allowances or the position of an in-flight execution.
C14_AdminFrame ==
    [][/\ AdminStep("transferOwnership") =>
             UNCHANGED << vault, paused, minProfitBps, status, bal, allow, pc, top >>
       /\ AdminStep("setVault") =>
             UNCHANGED << owner, paused, minProfitBps, status, bal, allow, pc, top >>
       /\ AdminStep("togglePause") =>
             /\ paused' = ~paused
             /\ UNCHANGED << owner, vault, minProfitBps, status, bal, allow, pc, top >>
       /\ AdminStep("setMinProfit") =>
             UNCHANGED << owner, vault, paused, status, bal, allow, pc, top >>
       /\ AdminStep("emergencyWithdraw") =>
             /\ \E t \in Tokens : bal' = Move(bal, t, THIS, vault, bal[t][THIS])
             /\ UNCHANGED << owner, vault, paused, minProfitBps, status, allow, pc, top >>
      ]_vars

\* the owner withdrew the executor's balance while an execution held the lock
C14_Witness ==
    /\ lastCall.fn = "emergencyWithdraw"
    /\ lastCall.result = OK
    /\ lastCall.nested
    /\ lastCall.changed
    /\ status = ENTERED
    /\ bal["WETH"][THIS] = 0
    /\ bal["WETH"][vault] > 0

\* C15 as stated: every successful admin call emits an event.
C15_AlwaysEmits ==
    [][\A f \in AdminFns : AdminStep(f) => Len(events') = Len(Log) + 1]_vars

\* C15 amended: transferOwnership, setVault and setMinProfit emit an event with
\* the previous and the new value, in that order; togglePause emits
\* PauseToggled with the new flag only; emergencyWithdraw emits
\* EmergencyWithdraw(token, amount withdrawn) when the executor's balance of
\* the token is positive and nothing when it is zero.
C15_AdminEvents ==
    [][/\ AdminStep("transferOwnership") =>
             events' = Append(Log, Event("OwnershipTransferred", << owner, owner' >>))
       /\ AdminStep("setVault") =>
             events' = Append(Log, Event("VaultUpdated", << vault, vault' >>))
       /\ AdminStep("togglePause") =>
             events' = Append(Log, Event("PauseToggled", << paused' >>))
       /\ AdminStep("setMinProfit") =>
             events' = Append(Log, Event("MinProfitUpdated",
                                         << minProfitBps, minProfitBps' >>))
       /\ AdminStep("emergencyWithdraw") =>
             \E t \in Tokens :
                /\ bal' = Move(bal, t, THIS, vault, bal[t][THIS])
                /\ events' = IF bal[t][THIS] > 0
                             THEN Append(Log, Event("EmergencyWithdraw",
                                                    << t, bal[t][THIS] >>))
                             ELSE Log
      ]_vars

\* setMinProfit(50) on the deployed executor logged (10, 50)
C15_Witness ==
    /\ lastCall.fn = "setMinProfit"
    /\ lastCall.result = OK
    /\ events # << >>
    /\ LastEvent = Event("MinProfitUpdated", << DeployMinProfitBps, 50 >>)
    /\ minProfitBps = 50

\* C16: owner and vault are never the zero address: a deployment with a zero
\* vault reverts with InvalidVault, setVault(0) by the owner reverts with
\* InvalidVault and transferOwnership(0) by the owner reverts (with
\* Unauthorized), each leaving the stored value as it was.
C16_NonZero ==
    /\ owner # ZERO
    /\ vault # ZERO
    /\ snap.owner # ZERO /\ snap.vault # ZERO
    /\ Constructor(ZERO) = InvalidVault
    /\ (lastCall.fn = "setVault" /\ lastCall.sender = lastCall.pre.owner
          /\ lastCall.arg.addr = ZERO) =>
          (lastCall.result = InvalidVault /\ ~lastCall.changed)
    /\ (lastCall.fn = "transferOwnership" /\ lastCall.sender = lastCall.pre.owner
          /\ lastCall.arg.addr = ZERO) =>
          (lastCall.result = Unauthorized /\ ~lastCall.changed)

\* the new owner tried to set the zero vault and it was turned down
C16_Witness ==
    /\ lastCall.fn = "setVault"
    /\ lastCall.sender = USER
    /\ lastCall.pre.owner = USER
    /\ lastCall.arg.addr = ZERO
    /\ lastCall.result = InvalidVault
    /\ vault = VAULT0

\* C30: whenever no transaction is in flight, that is after every call into
\* the executor, returned or reverted, _status is NOT_ENTERED: the lock taken
\* by executeWithAave is released on its normal return and on every revert.
C30_LockReleased ==
    /\ pc = "idle" => status = NOT_ENTERED
    /\ snap.status = NOT_ENTERED
    /\ (pc = "idle" /\ lastCall.fn = "executeWithAave" /\ ~lastCall.nested) =>
          lastCall.pre.status = NOT_ENTERED

\* an execution that took the lock and then failed in its second swap
C30_Witness ==
    /\ pc = "idle"
    /\ lastCall.fn = "executeWithAave"
    /\ lastCall.result = SwapFailed(1)
    /\ status = NOT_ENTERED

(* ------------------------------------------------------------------ *)
(* Properties of the price monitor                                     *)
(* ------------------------------------------------------------------ *)

\* the positions of the unordered pairs of distinct quotes
QuotePairs == { pr \in (1..Len(prices)) \X (1..Len(prices)) : pr[1] < pr[2] }

\* grossProfitPercent > 0 for the quotes at positions a and b, written out:
\* |pa - pb| / ((pa + pb) / 2) * 100 > (fa + fb) / 100 / 100; the fee tiers
\* are multiples of 100, so both sides are multiplied by (pa + pb) * 100 / 2
PairProfitable(a, b) ==
    /\ prices[a].price + prices[b].price > 0
    /\ 2 * PercentScale * Abs(prices[a].price - prices[b].price)
          > ((prices[a].fee + prices[b].fee) \div 100)
              * (prices[a].price + prices[b].price)

\* the entries of the returned list that were made for positions a and b
EntriesFor(a, b) ==
    { k \in 1..Len(opportunities) :
        {opportunities[k].buyPool, opportunities[k].sellPool} = {a, b} }

\* C17: findArbitrageOpportunities compares every unordered pair of distinct
\* quotes exactly once; the returned list holds one Opportunity for a pair
\* when its grossProfitPercent is strictly positive and none otherwise; the
\* buy side of every Opportunity is the quote with the strictly lower price.
C17_PairsAndDirection ==
    phase = "found" =>
        /\ Len(compared) = Cardinality(QuotePairs)
        /\ \A pr \in QuotePairs :
              Cardinality({ k \in 1..Len(compared) : compared[k] = pr }) = 1
        /\ \A pr \in QuotePairs :
              Cardinality(EntriesFor(pr[1], pr[2]))
                 = IF PairProfitable(pr[1], pr[2]) THEN 1 ELSE 0
        /\ \A k \in 1..Len(opportunities) :
              LET o == opportunities[k]
              IN /\ << o.buyPool, o.sellPool >> \in QuotePairs
                    \/ << o.sellPool, o.buyPool >> \in QuotePairs
                 /\ o.buyPrice = prices[o.buyPool].price
                 /\ o.sellPrice = prices[o.sellPool].price
                 /\ o.buyFee = prices[o.buyPool].fee
                 /\ o.sellFee = prices[o.sellPool].fee
                 /\ o.buyPrice < o.sellPrice

\* three quotes, three comparisons, and the profitable pair has its cheaper
\* quote, the later one in the array, as the buy side
C17_Witness ==
    /\ phase = "found"
    /\ Len(prices) = 3
    /\ Len(compared) = 3
    /\ Len(opportunities) = 1
    /\ opportunities[1].buyPool = 3
    /\ opportunities[1].sellPool = 1
    /\ ~PairProfitable(1, 2)

\* two quotes with the given prices and fee tiers, in any order and pairing
Scenario(priceSet, feeSet) ==
    /\ Len(prices) = 2
    /\ {prices[1].price, prices[2].price} = priceSet
    /\ {prices[1].fee, prices[2].fee} = feeSet

\* a percentage in units of 0.0001 % rounded to three decimals
Round3(v) == (v + 5) \div 10

\* what the scenarios of C18 have in common: the fees, the decisions and the
\* figures of the second scenario
ScenarioOutcomes ==
    /\ Scenario({3000, 3005}, {500, 3000}) =>
          /\ TotalFeePercent(prices[1].fee, prices[2].fee) = 3500
          /\ opportunities = << >>
    /\ Scenario({3000, 3050}, {500}) =>
          /\ Len(opportunities) = 1
          /\ Round3(opportunities[1].priceDiffPercent) = 1653
          /\ opportunities[1].totalFeePercent = 1000
          /\ Round3(opportunities[1].grossProfitPercent) = 1553
          /\ opportunities[1].buyPrice = 3000
          /\ opportunities[1].sellPrice = 3050

\* C18 as stated: quotes at 3000 and 3005 with fee tiers 5 and 30 bps have a
\* priceDiffPercent of 0.1664 and fees of 0.35, no Opportunity; quotes at 3000
\* and 3050 with fee tiers 5 and 5 bps give one Opportunity with
\* priceDiffPercent 1.653, fees 0.1, grossProfitPercent 1.553, buying at 3000.
C18_ScenarioAsStated ==
    phase = "found" =>
        /\ ScenarioOutcomes
        /\ Scenario({3000, 3005}, {500, 3000}) =>
              PriceDiffPercent(prices[1].price, prices[2].price) = 1664

\* C18 amended: the priceDiffPercent of the first scenario is 0.1665 (5 over
\* the average price 3002.5; 0.1664 is 5 over the higher price 3005); the
\* fees, both decisions and the figures of the second scenario are as stated.
C18_Scenario ==
    phase = "found" =>
        /\ ScenarioOutcomes
        /\ Scenario({3000, 3005}, {500, 3000}) =>
              PriceDiffPercent(prices[1].price, prices[2].price) = 1665

\* the second scenario with the cheaper quote second in the array
C18_Witness ==
    /\ phase = "found"
    /\ Scenario({3000, 3050}, {500})
    /\ prices[2].price = 3000
    /\ Len(opportunities) = 1
    /\ opportunities[1].buyPool = 2
    /\ opportunities[1].grossProfitPercent = 15528

(* ------------------------------------------------------------------ *)
(* Properties of the opportunity detector                              *)
(* ------------------------------------------------------------------ *)

C20_Viability ==
    recommendation.made =>
        LET a == recommendation.profitAnalysis
        IN /\ a.isViable <=>
                 (a.slippageAcceptable /\ a.profitAcceptable /\ a.bpsAcceptable)
           /\ a.slippageAcceptable <=>
                 (a.buySlippage.acceptable /\ a.sellSlippage.acceptable)
           /\ recommendation.shouldExecute = a.isViable
           /\ recommendation.shouldExecute <=>
                 recommendation.reason = "All criteria met - EXECUTE"
           /\ recommendation.shouldExecute =>
                 /\ a.buySlippage.slippageBps <= detector.maxSlippageBps
                 /\ a.sellSlippage.slippageBps <= detector.maxSlippageBps
                 /\ a.borrowAmount > 0
                 /\ a.netProfitAfterGas >= detector.minProfitBps * a.borrowAmount * 100

\* an opportunity that is recommended for execution
C20_Witness ==
    /\ recommendation.made
    /\ recommendation.shouldExecute
    /\ recommendation.profitAnalysis.slippageAcceptable
    /\ recommendation.profitAnalysis.profitAcceptable
    /\ recommendation.profitAnalysis.bpsAcceptable

(* ------------------------------------------------------------------ *)
(* Properties of the transaction builder                               *)
(* ------------------------------------------------------------------ *)

\* C21: buildArbitrageParams returns exactly two swaps.  Leg 1 sells the
\* borrowed token (token0) for the intermediate token (token1) at the buy-side
\* fee tier with amountIn equal to the whole borrow amount; leg 2 sells the
\* intermediate token for the borrowed token at the sell-side fee tier with
\* amountIn 0 and minAmountOut at least the borrow amount; borrowAmount is
\* sizing.optimalAmount.
C21_TwoLegs ==
    params.made =>
        LET p == params.value
            o == buildArgs.opportunity
        IN /\ Len(p.swaps) = 2
           /\ p.borrowToken = o.token0
           /\ p.borrowAmount = buildArgs.sizing.optimalAmount
           /\ p.swaps[1].tokenIn = p.borrowToken
           /\ p.swaps[1].tokenOut = o.token1
           /\ p.swaps[1].tokenOut # p.borrowToken
           /\ p.swaps[1].fee = o.buyFee
           /\ p.swaps[1].amountIn = p.borrowAmount
           /\ p.swaps[2].tokenIn = p.swaps[1].tokenOut
           /\ p.swaps[2].tokenOut = p.borrowToken
           /\ p.swaps[2].fee = o.sellFee
           /\ p.swaps[2].amountIn = 0
           /\ p.swaps[2].minAmountOut >= p.borrowAmount
           /\ \A k \in 1..2 : p.swaps[k].router = UNISWAP_V3_ROUTER

\* parameters for a borrow of 50000 units across two different fee tiers
C21_Witness ==
    /\ params.made
    /\ params.value.borrowAmount = 50000
    /\ params.value.swaps[1].fee = 500
    /\ params.value.swaps[2].fee = 3000
    /\ params.value.swaps[2].minAmountOut = 50000

\* C22: for a viable opportunity the minProfit that buildArbitrageParams
\* submits is one half of the estimated net profit after gas, expressed in the
\* smallest unit of the borrowed token (10 ^ -Decimals of a token) and rounded
\* down; it is not negative and not above the whole estimate in that unit.
\* netProfitAfterGas is held in units of 10 ^ -(Decimals + 6), so the
\* estimate in smallest units is netProfitAfterGas / 10 ^ 6.
C22_HalfEstimateInTokenUnits ==
    (params.made /\ recommendation.shouldExecute) =>
        LET net == buildArgs.profitAnalysis.netProfitAfterGas
        IN /\ params.value.minProfit = net \div 2000000
           /\ params.value.minProfit >= 0
           /\ params.value.minProfit <= net \div 1000000

\* C23: for an opportunity the cost model marks viable, running the built
\* parameters on pools that execute at exactly the quoted prices less their
\* fees meets the minimum output of leg 2 and passes the profit check
\* balance >= amountOwed + minProfit of the callback.
C23_SufficientAtQuotes ==
    (sim.made /\ recommendation.shouldExecute) =>
        /\ sim.out2 >= received.data.swaps[2].minAmountOut
        /\ sim.balance >= sim.amountOwed + received.data.minProfit
        /\ sim.result = OK

\* C24: the parameters encoded by encodeExecuteWithAave, read by
\* executeWithAave and handed through abi.encode / abi.decode of CallbackData
\* to the callback arrive unchanged: the same borrow token, borrow amount and
\* minProfit, and the same swaps in the same order with the same six fields;
\* encoding the built parameters never throws.
C24_RoundTrip ==
    /\ calldata.made => "value" \in DOMAIN calldata
    /\ (received.made /\ received.result = OK) =>
          LET p == params.value
              d == received.data
          IN /\ received.asset = p.borrowToken
             /\ received.amount = p.borrowAmount
             /\ d.borrowToken = p.borrowToken
             /\ d.borrowAmount = p.borrowAmount
             /\ d.minProfit = p.minProfit
             /\ Len(d.swaps) = Len(p.swaps)
             /\ \A k \in 1..Len(p.swaps) :
                  /\ d.swaps[k].router = p.swaps[k].router
                  /\ d.swaps[k].tokenIn = p.swaps[k].tokenIn
                  /\ d.swaps[k].tokenOut = p.swaps[k].tokenOut
                  /\ d.swaps[k].fee = p.swaps[k].fee
                  /\ d.swaps[k].amountIn = p.swaps[k].amountIn
                  /\ d.swaps[k].minAmountOut = p.swaps[k].minAmountOut

\* the callback has decoded a payload whose two swaps differ in every amount
C24_Witness ==
    /\ received.made
    /\ received.result = OK
    /\ received.data.minProfit = 275175
    /\ received.data.swaps[1].amountIn = 5000
    /\ received.data.swaps[1].minAmountOut = 1
    /\ received.data.swaps[2].amountIn = 0
    /\ received.data.swaps[2].minAmountOut = 5000

(* ------------------------------------------------------------------ *)
(* Properties of the price reader and of the polling loop              *)
(* ------------------------------------------------------------------ *)

\* position of a factory in the factories array
DexRank(d) == CHOOSE r \in 1..Len(Factories) : Factories[r] = d

\* C25: getPricesForPair never throws.  A pool whose address resolves to
\* zero, or one of whose reads (getPool, slot0, liquidity, token0, token1,
\* fee) fails, is left out and no other pool is; every pool whose reads all
\* succeed has its quote in the result, and the quotes come venue by venue,
\* within a venue by fee tier.
C25_PerPoolSkip ==
    /\ pricesCall # "threw"
    /\ pricesCall = "returned" => Len(readLog) = Len(Factories) * Len(FeeTiers)
    /\ pricesCall \in {"running", "returned"} =>
          /\ \A k \in 1..Len(readLog) :
                (readLog[k] = "ok") <=> (\E q \in 1..Len(quotes) : quotes[q].pool = k)
          /\ \A q \in 1..Len(quotes) :
                /\ quotes[q].pool \in 1..Len(readLog)
                /\ quotes[q].dex = Factories[((quotes[q].pool - 1) \div Len(FeeTiers)) + 1]
                /\ quotes[q].fee = FeeTiers[((quotes[q].pool - 1) % Len(FeeTiers)) + 1]
          /\ \A a, b \in 1..Len(quotes) :
                a < b =>
                   \/ DexRank(quotes[a].dex) < DexRank(quotes[b].dex)
                   \/ /\ quotes[a].dex = quotes[b].dex
                      /\ quotes[a].fee < quotes[b].fee

\* a call that lost one pool to a zero address and one to a failed slot0
\* read and returned the other six
C25_Witness ==
    /\ pricesCall = "returned"
    /\ readLog[2] = "zeroAddress"
    /\ readLog[5] = "slot0Fails"
    /\ Len(quotes) = 6
    /\ quotes[2].pool = 3
    /\ quotes[4].dex = "SushiSwap"

\* cycles of the log that ended normally
CompletedCycles ==
    Cardinality({ k \in 1..Len(cycleLog) : cycleLog[k].result = "completed" })

\* C26: within a cycle a failure while monitoring or evaluating one pair
\* skips only that pair. runCycle never throws; while it runs, the pairs
\* handled so far are exactly the pairs before pairIdx, in the order of
\* MONITORED_PAIRS, failed or not; it ends only after all of them, and
\* cyclesCompleted goes up by exactly one when it ends and at no other time.
C26_PairFailureIsolated ==
    /\ [](botPc # "rejected")
    /\ [](botPc = "inCycle" =>
            /\ Len(pairLog) = pairIdx - 1
            /\ \A k \in 1..Len(pairLog) : pairLog[k].pair = k)
    /\ [](cyclesCompleted = CompletedCycles)
    /\ [][ (botPc = "inCycle" /\ botPc' # "inCycle") =>
             /\ Len(pairLog) = Len(MONITORED_PAIRS)
             /\ cyclesCompleted' = cyclesCompleted + 1 ]_vars
    /\ [][ cyclesCompleted' # cyclesCompleted =>
             (botPc = "inCycle" /\ botPc' # "inCycle") ]_vars

\* the second cycle of a run: the first pair failed in monitorPair, the
\* second in the evaluation of its second opportunity, and the third was
\* still monitored and evaluated
C26_Witness ==
    /\ botPc = "inCycle"
    /\ cyclesCompleted = 1
    /\ pairIdx = Len(MONITORED_PAIRS) + 1
    /\ pairLog[1].result = "caught" /\ pairLog[1].found = 0
    /\ pairLog[2].result = "caught" /\ pairLog[2].found = 2
    /\ pairLog[2].evaluated = 1
    /\ pairLog[3].result = "evaluated" /\ pairLog[3].evaluated = 2

\* C27 as stated: a cycle begun with the endpoint unreachable ends by
\* reporting the failure to the caller of runCycle.
C27_FatalSurfaced ==
    \A k \in 1..Len(cycleLog) :
        (cycleLog[k].rpc = "down" /\ cycleLog[k].result # "running")
            => cycleLog[k].result = "threw"

\* C27, amended: a cycle begun with the endpoint unreachable surfaces
\* nothing. Every read fails inside getPricesForPair and is caught there, so
\* each pair that meets no other fault yields no quotes and no
\* opportunities without reaching the catch of runCycle; runCycle never
\* rejects, and it ends normally, counted in cyclesCompleted.
C27_OutageSwallowed ==
    /\ [](\A k \in 1..Len(cycleLog) :
            cycleLog[k].rpc = "down" =>
                cycleLog[k].result \in {"running", "completed"})
    /\ []((botPc = "inCycle" /\ rpc = "down") =>
            \A k \in 1..Len(pairLog) :
                /\ pairLog[k].quotes = 0
                /\ pairLog[k].found = 0
                /\ pairLog[k].fault = "none" => pairLog[k].result = "none")
    /\ [][ (botPc = "inCycle" /\ rpc = "down" /\ botPc' # "inCycle") =>
             /\ botPc' \in {"returned", "sleeping"}
             /\ cyclesCompleted' = cyclesCompleted + 1
             /\ cycleLog'[Len(cycleLog)].result = "completed" ]_vars

\* a cycle begun with the endpoint down has ended normally after three
\* pairs without quotes, and start() is waiting for the timer
C27_Witness ==
    /\ botPc = "sleeping"
    /\ entry = "start"
    /\ rpc = "down"
    /\ cyclesCompleted = 1
    /\ cycleLog = << [rpc |-> "down", result |-> "completed"] >>

\* a step that enters runCycle
CycleBegins == botPc # "inCycle" /\ botPc' = "inCycle"

\* a step that leaves runCycle
CycleEnds == botPc = "inCycle" /\ botPc' # "inCycle"

RunningCycles ==
    { k \in 1..Len(cycleLog) : cycleLog[k].result = "running" }

CacheHas(cache, key) == cache[key] # "absent"

\* lines 61-63 with the condition dropped: the answer is stored whatever it is
CacheAfterRead_StoreZero(cache, key, poolAddress) == [cache EXCEPT ![key] = poolAddress]

\* lines 61-63: if (poolAddress !== ZERO) this.poolCache.set(cacheKey, poolAddress)
CacheAfterRead(cache, key, poolAddress) ==
    IF poolAddress # ZeroAddress THEN [cache EXCEPT ![key] = poolAddress] ELSE cache

\* what getPool may answer a read issued when the pool existed or not
\* (createdAtCall) and answered while the pools in `existing` exist: the zero
\* address is an answer computed before the pool was created
FactoryAnswers(key, createdAtCall, existing) ==
    (IF createdAtCall THEN {} ELSE {ZeroAddress})
        \cup (IF key \in existing THEN {PoolOf(key)} ELSE {})

InitCache ==
    /\ Deployed
    /\ PipelineOff
    /\ PricesOff
    /\ LoopOff
    /\ poolCache = NoCache
    /\ created \in SUBSET CacheKeys
    /\ lookups = [c \in Callers |-> NoLookup]
    /\ nLookups = 0

\* somebody creates the pool of a key; a created pool stays
CreatePool ==
    \E key \in CacheKeys \ created :
        /\ created' = created \cup {key}
        /\ UNCHANGED << chainVars, pipelineVars, pricesVars, loopVars, poolCache, lookups, nLookups >>

\* getPoolAddress is called and the key is cached: lines 48-52
LookupHit ==
    \E c \in Callers, key \in CacheKeys :
        /\ lookups[c].pc \in {"idle", "returned", "threw"}
        /\ nLookups < MaxLookups
        /\ CacheHas(poolCache, key)
        /\ lookups' = [lookups EXCEPT ![c] =
                          [pc |-> "returned", key |-> key, poolAddress |-> poolCache[key],
                           reads |-> 0, cachedAtCall |-> poolCache[key],
                           createdAtCall |-> key \in created]]
        /\ nLookups' = nLookups + 1
        /\ UNCHANGED << chainVars, pipelineVars, pricesVars, loopVars, poolCache, created >>

\* getPoolAddress is called and the key is not cached: lines 48-59, up to the await
LookupMiss ==
    \E c \in Callers, key \in CacheKeys :
        /\ lookups[c].pc \in {"idle", "returned", "threw"}
        /\ nLookups < MaxLookups
        /\ ~CacheHas(poolCache, key)
        /\ lookups' = [lookups EXCEPT ![c] =
                          [pc |-> "reading", key |-> key, poolAddress |-> "none",
                           reads |-> 1, cachedAtCall |-> "absent",
                           createdAtCall |-> key \in created]]
        /\ nLookups' = nLookups + 1
        /\ UNCHANGED << chainVars, pipelineVars, pricesVars, loopVars, poolCache, created >>

\* the factory read answers: lines 54-65
ReadAnswers ==
    \E c \in Callers :
        /\ lookups[c].pc = "reading"
        /\ \E poolAddress \in FactoryAnswers(lookups[c].key, lookups[c].createdAtCall, created) :
              /\ poolCache' = CacheAfterRead(poolCache, lookups[c].key, poolAddress)
              /\ lookups' = [lookups EXCEPT ![c].pc = "returned",
                                            ![c].poolAddress = poolAddress]
        /\ UNCHANGED << chainVars, pipelineVars, pricesVars, loopVars, created, nLookups >>

\* the factory read rejects: the await on line 54 throws out of getPoolAddress
ReadRejects ==
    \E c \in Callers :
        /\ lookups[c].pc = "reading"
        /\ lookups' = [lookups EXCEPT ![c].pc = "threw"]
        /\ UNCHANGED << chainVars, pipelineVars, pricesVars, loopVars, poolCache, created, nLookups >>

NextCache == CreatePool \/ LookupHit \/ LookupMiss \/ ReadAnswers \/ ReadRejects

SpecCache == InitCache /\ [][NextCache]_vars

(* ------------------------------------------------------------------ *)
(* Properties settled last                                              *)
(* ------------------------------------------------------------------ *)

\* C31: _executeSwaps runs the legs strictly in list order.  The leg
\* prepared next is always the one after the legs already run (one router
\* outcome logged per leg run); a leg whose amountIn is 0 takes the
\* executor's balance of its input token as it is when the leg is prepared,
\* any other leg its stated amount; the approval given to the leg's router
\* for the input token is exactly that amount; and when the router call
\* ends the loop moves on by exactly one leg.
C31_LegsInOrder ==
    /\ [][ (pc = "swaps" /\ pc' = "inRouter") =>
             LET swap == cur.data.swaps[cur.i + 1]
                 expected == IF swap.amountIn = 0
                             THEN bal[swap.tokenIn][THIS]
                             ELSE swap.amountIn
             IN  /\ cur.i = Len(legLog)
                 /\ cur'.i = cur.i
                 /\ cur'.amountIn = expected
                 /\ allow'[swap.tokenIn][swap.router] = expected ]_vars
    /\ [][ (pc = "inRouter" /\ pc' \in {"swaps", "settle"}) =>
             /\ cur'.i = cur.i + 1
             /\ Len(legLog') = cur'.i
             /\ (pc' = "settle" <=> cur'.i = Len(cur.data.swaps)) ]_vars
    /\ [][ (pc \in {"swaps", "inRouter"} /\ pc' \in {"swaps", "inRouter"}) =>
             cur'.data = cur.data ]_vars

\* the second leg of a two-leg run has amountIn 0 and was prepared with
\* the executor's whole balance of its input token, which the first leg
\* paid out
C31_Witness ==
    /\ pc = "inRouter"
    /\ cur.i = 1
    /\ Len(cur.data.swaps) = 2
    /\ cur.data.swaps[2].amountIn = 0
    /\ cur.lastOut > 0
    /\ cur.amountIn = bal[cur.data.swaps[2].tokenIn][THIS]
    /\ cur.amountIn >= cur.lastOut
    /\ allow[cur.data.swaps[2].tokenIn][cur.data.swaps[2].router] = cur.amountIn

\* C32: the list findArbitrageOpportunities returns is sorted in
\* non-increasing order of grossProfitPercent, and it is a permutation of
\* the opportunities emitted by the loops: the same length, and every
\* emitted entry occurs in it as often as it was emitted.
C32_SortedPermutation ==
    /\ [](phase = "found" =>
            \A k \in 1..(Len(opportunities) - 1) :
                opportunities[k].grossProfitPercent
                    >= opportunities[k + 1].grossProfitPercent)
    /\ [][ (phase = "find" /\ phase' = "found") =>
             /\ Len(opportunities') = Len(opportunities)
             /\ \A k \in 1..Len(opportunities) :
                   Cardinality({ j \in 1..Len(opportunities') :
                                   opportunities'[j] = opportunities[k] })
                     = Cardinality({ j \in 1..Len(opportunities) :
                                       opportunities[j] = opportunities[k] }) ]_vars

\* three opportunities were emitted for the pairs (1,2), (1,3), (2,3) and
\* the list returned starts with the one for (1,3), then (2,3), then (1,2)
C32_Witness ==
    /\ phase = "found"
    /\ Len(opportunities) = 3
    /\ {opportunities[1].buyPool, opportunities[1].sellPool} = {1, 3}
    /\ {opportunities[2].buyPool, opportunities[2].sellPool} = {2, 3}
    /\ {opportunities[3].buyPool, opportunities[3].sellPool} = {1, 2}
    /\ opportunities[1].grossProfitPercent > opportunities[2].grossProfitPercent
    /\ opportunities[2].grossProfitPercent > opportunities[3].grossProfitPercent

\* C33: modelSlippage returns floor(tradeSize * 10000 / liquidity) times 3
\* for fee tier 100, times 2 for fee tier 500 and times 1 for any other
\* tier; the side is acceptable exactly when that is at most
\* maxSlippageBps; with liquidity 0 it returns 10000 and not acceptable,
\* whatever the cap.  Read off both sides of every evaluation.
C33_SlippageModel ==
    phase = "evaluated" =>
        LET t == recommendation.sizing.optimalAmount
            o == recommendation.opportunity
            a == recommendation.profitAnalysis
            Holds(r, l, f) ==
                IF l = 0
                THEN r.slippageBps = 10000 /\ ~r.acceptable
                ELSE /\ r.slippageBps
                          = ((t * 10000) \div l)
                              * (IF f = 100 THEN 3 ELSE IF f = 500 THEN 2 ELSE 1)
                     /\ r.acceptable <=> r.slippageBps <= detector.maxSlippageBps
        IN  /\ Holds(a.buySlippage, o.buyLiquidity, o.buyFee)
            /\ Holds(a.sellSlippage, o.sellLiquidity, o.sellFee)

\* a trade of 1 unit: the buy side, tier 3000 with liquidity 199, has 50 bps
\* and is acceptable at the cap of 50; the sell side, tier 100 with
\* liquidity 200, has 3 * 50 bps and is not
C33_Witness ==
    /\ phase = "evaluated"
    /\ detector.maxSlippageBps = MAX_SLIPPAGE_BPS
    /\ recommendation.sizing.optimalAmount = 1
    /\ recommendation.opportunity.buyFee = 3000
    /\ recommendation.opportunity.buyLiquidity = 199
    /\ recommendation.profitAnalysis.buySlippage.slippageBps = 50
    /\ recommendation.profitAnalysis.buySlippage.acceptable
    /\ recommendation.opportunity.sellFee = 100
    /\ recommendation.opportunity.sellLiquidity = 200
    /\ recommendation.profitAnalysis.sellSlippage.slippageBps = 150
    /\ ~recommendation.profitAnalysis.sellSlippage.acceptable

\* C34: each of the three thresholds supplied at construction (maximum
\* slippage, absolute profit floor, relative profit floor) is the value its
\* acceptability flag is evaluated against, whatever the other two are and
\* for every supplied value, 0 included.
C34_ThresholdsAsSupplied ==
    phase = "evaluated" =>
        LET a == recommendation.profitAnalysis
            supplied == detector.options
        IN  /\ a.buySlippage.acceptable
                  <=> (recommendation.opportunity.buyLiquidity # 0
                       /\ a.buySlippage.slippageBps <= supplied.maxSlippageBps)
            /\ a.sellSlippage.acceptable
                  <=> (recommendation.opportunity.sellLiquidity # 0
                       /\ a.sellSlippage.slippageBps <= supplied.maxSlippageBps)
            /\ a.profitAcceptable
                  <=> a.netProfitAfterGas
                        >= supplied.minProfitUsd * 10000 * MicroUsd
            /\ a.bpsAcceptable
                  <=> (a.borrowAmount > 0
                       /\ a.netProfitAfterGas
                            >= supplied.minProfitBps * a.borrowAmount * 100)

\* the same for the supplied values other than 0
C34_NonZeroAsSupplied ==
    (/\ phase = "evaluated"
     /\ detector.options.maxSlippageBps # 0
     /\ detector.options.minProfitUsd # 0
     /\ detector.options.minProfitBps # 0) => C34_ThresholdsAsSupplied

\* C35: the pool-address cache is append-only under every interleaving of
\* getPoolAddress calls: a key that maps to a non-zero address keeps that entry
\* unchanged in every step (so a concurrent call that populates it again writes
\* the same value), and every call begun while the key is cached returns the
\* cached address without a factory read.
C35_CacheAppendOnly ==
    /\ [][\A key \in CacheKeys :
            poolCache[key] \notin {"absent", ZeroAddress} => poolCache'[key] = poolCache[key]]_vars
    /\ [][\A c \in Callers :
            (/\ nLookups' = nLookups + 1
             /\ lookups'[c] # lookups[c]
             /\ poolCache[lookups'[c].key] \notin {"absent", ZeroAddress})
            => /\ lookups'[c].pc = "returned"
               /\ lookups'[c].poolAddress = poolCache[lookups'[c].key]
               /\ lookups'[c].reads = 0]_vars
    /\ [](\A key \in CacheKeys : poolCache[key] \in {"absent", PoolOf(key)})

\* one caller populated the key and then hit the cache, while the other
\* caller's read of the same key, issued before the pool existed, came back
\* with the zero address after the entry was written
C35_Witness ==
    /\ lookups[1].pc = "returned"
    /\ lookups[1].reads = 0
    /\ lookups[1].poolAddress = PoolOf(lookups[1].key)
    /\ lookups[2].pc = "returned"
    /\ lookups[2].reads = 1
    /\ lookups[2].key = lookups[1].key
    /\ lookups[2].poolAddress = ZeroAddress
    /\ poolCache[lookups[1].key] = PoolOf(lookups[1].key)

\* C36: start(maxCycles) with maxCycles > 0 and no stop() terminates. It
\* returns, and when it has returned it has run exactly maxCycles cycles and
\* cyclesCompleted went up from 0 by exactly maxCycles, whatever happened to
\* the pairs; it returns straight from the end of the last counted cycle, with
\* no timer in between, and nothing runs after it has returned.
C36_BoundedRunTerminates ==
    /\ []((entry = "start" /\ maxCycles > 0 /\ ~stopCalled /\ botPc = "returned") =>
            /\ cycles = maxCycles
            /\ cyclesCompleted = maxCycles
            /\ Len(cycleLog) = maxCycles
            /\ \A k \in 1..Len(cycleLog) : cycleLog[k].result = "completed"
            /\ ~delayElapsed)
    /\ [][ (entry = "start" /\ maxCycles > 0 /\ ~stopCalled
            /\ botPc # "returned" /\ botPc' = "returned") =>
             /\ botPc = "inCycle"
             /\ Len(pairLog) = Len(MONITORED_PAIRS)
             /\ cycles' = maxCycles
             /\ cyclesCompleted' = cyclesCompleted + 1 ]_vars
    /\ [][ (entry = "start" /\ botPc = "returned") =>
             /\ botPc' = "returned"
             /\ cycles' = cycles
             /\ cyclesCompleted' = cyclesCompleted
             /\ cycleLog' = cycleLog
             /\ delayElapsed' = delayElapsed ]_vars
    /\ (entry = "start" /\ maxCycles > 0) ~> (botPc = "returned" \/ stopCalled)

\* start(2) has returned without stop(): both cycles ran with the endpoint
\* down, so every read of every pair failed in both of them
C36_Witness ==
    /\ entry = "start"
    /\ maxCycles = 2
    /\ ~stopCalled
    /\ botPc = "returned"
    /\ cyclesCompleted = 2
    /\ cycleLog = << [rpc |-> "down", result |-> "completed"],
                     [rpc |-> "down", result |-> "completed"] >>

\* the profit the latest successful executeWithAave forwarded to the vault:
\* the third field of its ArbitrageExecuted event
ForwardedProfit == events[Len(events)].args[3]

\* executeWithAave has just completed successfully
ExecutionSucceeded ==
    /\ pc = "idle"
    /\ lastCall.fn = "executeWithAave"
    /\ lastCall.result = OK
    /\ obs.seen
    /\ Len(events) > 0
    /\ events[Len(events)].name = "ArbitrageExecuted"

\* C38: whenever executeWithAave completes successfully, the profit forwarded
\* to the vault (balanceAfter - balanceBefore) is at least params.minProfit,
\* whatever balance of the borrowed token the executor held before the call.
C38_ProfitFloorForwarded ==
    ExecutionSucceeded => ForwardedProfit >= obs.minProfit

\* the floor does hold for an executor that held none of the borrowed token
\* before the call, and the profit check always leaves the executor at least
\* minProfit after the repayment
C38_FloorWithoutIdleBalance ==
    ExecutionSucceeded =>
        /\ obs.balanceBefore = 0 => ForwardedProfit >= obs.minProfit
        /\ ForwardedProfit + obs.balanceBefore >= obs.minProfit

\* _executeSwaps is running: between its first approval and the return of
\* its last router call
SwapsRunning == pc \in {"swaps", "inRouter"}

\* C37: the executor runs a swap sequence only inside an owner-initiated
\* execution. Whenever _executeSwaps executes, through either callback, the
\* reentrancy lock is held by an executeWithAave call that the owner made,
\* and the contract is not paused.
C37_SwapsOnlyInOwnerExecution ==
    SwapsRunning =>
        /\ top = "executeWithAave"
        /\ status = ENTERED
        /\ cur.sender = snap.owner
        /\ ~paused

\* what does hold through executeOperation: the swaps run under the lock of
\* an executeWithAave call that the owner made while the contract was not
\* paused; the pause flag itself can be set while they run
C37_LockedByOwnerExecution ==
    (SwapsRunning /\ top = "executeWithAave") =>
        /\ status = ENTERED
        /\ cur.sender = snap.owner
        /\ ~snap.paused

\* the swaps of a payload run through uniswapV3FlashCallback while the
\* contract is paused and the lock is free, called by a pool
C37_SwapsThroughFlashCallback ==
    /\ SwapsRunning
    /\ top = "uniswapV3FlashCallback"
    /\ cur.sender = UNIPOOL
    /\ paused
    /\ status = NOT_ENTERED

\* a step of an execution in flight that goes on; a call made into the
\* executor while the router runs leaves pc where it is
ExecutionGoesOn == pc # "idle" /\ pc' # pc /\ pc' # "idle"

\* a step that ends the execution in flight
ExecutionEnds == pc # "idle" /\ pc' = "idle"

DefaultSizing ==
    /\ detector.maxFlashloanPercent = MAX_FLASHLOAN_PERCENT
    /\ detector.maxSlippageBps = MAX_SLIPPAGE_BPS

\* the modeled slippage of the recommendation on the side of the pool with
\* the binding (smaller) liquidity
BindingSlippage ==
    IF recommendation.opportunity.buyLiquidity < recommendation.opportunity.sellLiquidity
    THEN recommendation.profitAnalysis.buySlippage
    ELSE recommendation.profitAnalysis.sellSlippage

====
